---- MODULE Spec2Model ----
(***************************************************************************)
(* MoTeC .ld/.ldx ingestion of racingAnalize:                              *)
(*   src/src/data_acquisition/parsers.py     MotecParser.parse, _ldHead,   *)
(*                                           _ldChan, _parse_ldx           *)
(*   src/src/data_acquisition/normalizer.py  TelemetryNormalizer           *)
(*                                                                         *)
(* The files on disk are the inputs.  Their content is revealed as the     *)
(* code reads it: a descriptor record is drawn from a bounded set the      *)
(* first time its offset is read and kept in ldFile, so that a second read *)
(* of the same offset sees the same bytes.                                 *)
(*                                                                         *)
(* Byte offsets are abstracted to record slots 0..MaxOffset (0 is the null *)
(* pointer), sample values to small integers plus NaN.                     *)
(***************************************************************************)
EXTENDS Integers, Sequences, FiniteSets, TLC

VARIABLES
    scope,              \* which inputs are explored: "walk", "ldx", "parse", "norm"
    ext,                \* extension of file_path: "ld", "ldx" or "other"
    ldState,            \* the .ld file: "missing", "unreadable", "short", "ok"
    ldxState,           \* the .ldx file: "missing", "unreadable", "ok"
    ldFile,             \* descriptor records of the .ld file read so far, by offset
    pc,                 \* position of the parse call
    exc,                \* exception propagating to parse's handler, or "none"
    result,             \* what parse returned: [kind, laps]
    ldx_path,           \* ldx_file_path is not None
    meta_ptr,           \* parse: meta_ptr
    processed_offsets,  \* parse: processed_offsets
    channels,           \* parse: channels, name -> _ldChan
    readLog,            \* history: the offsets at which _ldChan was constructed
    walkEnd,            \* history: how the directory walk ended
    ldxRecs,            \* records of the .ldx file read so far, in file order
    lap_infos,          \* _parse_ldx: lap_infos
    lap_num,            \* _parse_ldx: lap_num
    ldx_laps,           \* parse: ldx_laps ([none, laps])
    lapIdx,             \* parse: position of the loop over ldx_laps
    decodeLog,          \* history: (lap, channel name) of every get_data call
    session_laps,       \* parse: session_laps
    source_format,      \* normalize: source_format
    raw_kind,           \* normalize: what raw_data is: "dict" (channel set), "session",
                        \* "laps_dict", "laps_only_dict", "points", "other"
    samples,            \* normalize: raw_data["samples"], name -> values
    npc,                \* position of the normalize call
    mapped_channels,    \* _normalize_motec: mapped_channels, standard name -> values
    lap_i,              \* _process_laps_from_samples: i of the loop over start_indices
    laps_data,          \* _process_laps_from_samples: laps_data
    sector_markers_m,   \* track_data.sector_markers_m
    lapsCalled,         \* history: _process_laps_from_samples was entered
    boundaryLog,        \* history: (start_idx, end_idx - 1) of every iteration over the laps
    dpc,                \* position of the call sequence _ldChan(...), get_data(...)
    chanRec,            \* the descriptor record and the data block of the channel in the file
    chanObj,            \* the _ldChan object: shift, mul, scale, dec, data_len, np_dtype
    call_args,          \* get_data: [start_index, count, omitted]
    converted_data,     \* what get_data returned: [none, data], data a list of fractions
    dataReads,          \* history: the number of times get_data opened the file
    files,              \* two calls: the .ld file of each call, offset -> record
    calls,              \* two calls: the local variables of each parse call
    interleaved,        \* history: a call took a step while the other was in its walk
    hpc,                \* file handles: position between the read operations of a parse
    hop,                \* file handles: the read operation in progress or made last
    open_files,         \* file handles: the handles that are open
    opLog,              \* history: the read operations made, each with its outcome
    raw_session,        \* normalize: raw_data when it is a TelemetrySession: [laps, markers]
    first_result,       \* history: what the first of two normalize calls returned
    nresult             \* what normalize returned: [kind, laps, markers]

vars == <<scope, ext, ldState, ldxState, ldFile, pc, exc, result, ldx_path, meta_ptr,
          processed_offsets, channels, readLog, walkEnd, ldxRecs, lap_infos,
          lap_num, ldx_laps, lapIdx, decodeLog, session_laps, source_format,
          raw_kind, samples, npc, mapped_channels, lap_i, laps_data,
          sector_markers_m, lapsCalled, boundaryLog, nresult,
          dpc, chanRec, chanObj, call_args, converted_data, dataReads,
          files, calls, interleaved, hpc, hop, open_files, opLog,
          raw_session, first_result>>

walkVars == <<meta_ptr, processed_offsets, channels, readLog, walkEnd, ldFile>>
ldxVars == <<ldxRecs, lap_infos, lap_num, ldx_laps>>
lapVars == <<lapIdx, decodeLog, session_laps>>
fileVars == <<scope, ext, ldState, ldxState>>
callVars == <<files, calls, interleaved>>
handleVars == <<hpc, hop, open_files, opLog>>
idemVars == <<raw_session, first_result>>
decVars == <<dpc, chanRec, chanObj, call_args, converted_data, dataReads>>
\* what a parse call leaves alone, what a normalize call leaves alone
normVars == <<idemVars, source_format, raw_kind, samples, npc, mapped_channels, lap_i,
              laps_data, sector_markers_m, lapsCalled, boundaryLog, nresult, decVars, callVars, handleVars>>
parseVars == <<scope, ext, ldState, ldxState, ldFile, pc, exc, result, ldx_path, meta_ptr,
               processed_offsets, channels, readLog, walkEnd, ldxRecs, lap_infos,
               lap_num, ldx_laps, lapIdx, decodeLog, session_laps, decVars, callVars, handleVars>>
\* what a use of one _ldChan object on its own leaves alone
restVars == <<scope, ext, ldState, ldxState, ldFile, pc, exc, result, ldx_path, meta_ptr,
              processed_offsets, channels, readLog, walkEnd, ldxRecs, lap_infos,
              lap_num, ldx_laps, lapIdx, decodeLog, session_laps,
              source_format, raw_kind, samples, npc, mapped_channels, lap_i,
              laps_data, sector_markers_m, lapsCalled, boundaryLog, nresult, idemVars>>

----------------------------------------------------------------------------
(* Bounds of the model *)

\* record slots of the .ld file: offsets 1..MaxOffset, 0 the null pointer
MaxOffset == 3
\* the cap on len(processed_offsets) (1000 in the source, scaled down)
MaxProcessed == 2
\* samples per channel data block
MaxSamples == 2
\* samples per channel handed to normalize
MaxNormSamples == 3
\* records in a sidecar file
MaxRecords == 3
\* descriptors on a chain in the whole-parse specification
MaxChain == 2

Offsets == 1..MaxOffset

\* float NaN, as read from a float32 field or data block
NaN == 0 - 99

\* MotecParser.FIRST_CHANNEL_OFFSET_GUESS (0x2c68), as a record slot
FIRST_CHANNEL_OFFSET_GUESS == 1

Min(a, b) == IF a <= b THEN a ELSE b
Max(a, b) == IF a >= b THEN a ELSE b

----------------------------------------------------------------------------
(* _ldChan *)

\* _ldChan._read_header, lines 97-111: the numpy dtype of the two type codes
NpDtype(a, b) ==
    IF b = 7 THEN "float32"
    ELSE IF a = 7
         THEN (CASE b = 2 -> "float16" [] b = 4 -> "float32" [] OTHER -> "None")
    ELSE IF a \in {0, 3, 5}
         THEN (CASE b = 2 -> "int16" [] b = 4 -> "int32" [] OTHER -> "None")
    ELSE "None"

\* the _ldChan object after __init__ when the record cannot be read or
\* unpacked: the fields keep the defaults of __init__, np_dtype is None
LdChanUnread(ptr) ==
    [meta_ptr |-> ptr, name |-> "", np_dtype |-> "None", next_meta_ptr |-> 0,
     data_len |-> 0, avail |-> 0, prof |-> "inc"]

\* _ldChan(f_path, meta_ptr): the object built from the record rec at ptr
LdChan(ptr, rec) ==
    IF ~rec.readable
    THEN LdChanUnread(ptr)
    ELSE [meta_ptr |-> ptr, name |-> rec.name,
          np_dtype |-> NpDtype(rec.dtype_code_a, rec.dtype_code_b),
          next_meta_ptr |-> rec.next_meta_ptr,
          data_len |-> rec.data_len, avail |-> rec.avail, prof |-> rec.prof]

\* the validity test without the type: `chan.name`
ChanValid_NameOnly(chan) == chan.name # ""

\* lines 401 and 421: `chan.name and chan.np_dtype`
ChanValid(chan) == chan.name # "" /\ chan.np_dtype # "None"

\* a record that cannot be read in full (offset at or past the end of file)
ShortRecord ==
    [readable |-> FALSE, name |-> "", dtype_code_a |-> 0, dtype_code_b |-> 0,
     next_meta_ptr |-> 0, data_len |-> 0, avail |-> 0, prof |-> "inc"]

----------------------------------------------------------------------------
(* The inputs: what the files can hold *)

\* descriptor records explored by the directory-walk specification: every
\* next-pointer graph over the slots, names empty or not, types known or not
WalkRecords(ptr) ==
    {ShortRecord} \cup
    [readable : {TRUE}, name : {"", "Time", "RPM"},
     dtype_code_a : {0, 9}, dtype_code_b : {2},
     next_meta_ptr : 0..MaxOffset, data_len : {0}, avail : {0}, prof : {"inc"}]

\* the data blocks (declared length, elements present in the file): whole,
\* cut short by one element, cut off entirely, declared empty, one shorter
DataShapes ==
    {<<MaxSamples, MaxSamples>>, <<MaxSamples, MaxSamples - 1>>, <<MaxSamples, 0>>,
     <<0, 0>>, <<MaxSamples - 1, MaxSamples - 1>>}

\* valid descriptors on a forward chain, a descriptor with an empty name, one
\* with an unknown type, a record past the end of the file
ParseRecords(ptr) ==
    {ShortRecord} \cup
    {[readable |-> TRUE, name |-> ch[1], dtype_code_a |-> ch[2], dtype_code_b |-> ch[3],
      next_meta_ptr |-> nx, data_len |-> sh[1], avail |-> sh[2], prof |-> ch[4]] :
        ch \in {<<"Time", 0, 2, "inc">>, <<"Time", 7, 4, "nan">>,
                <<"Distance", 0, 2, "inc">>, <<"RPM", 0, 2, "inc">>},
        nx \in {0} \cup {o \in Offsets : o = ptr + 1 /\ o <= MaxChain},
        sh \in DataShapes} \cup
    {[readable |-> TRUE, name |-> ch[1], dtype_code_a |-> ch[2], dtype_code_b |-> 2,
      next_meta_ptr |-> 0, data_len |-> MaxSamples, avail |-> MaxSamples,
      prof |-> "inc"] :
        ch \in {<<"", 0>>, <<"RPM", 9>>}}

\* a lap inside a whole data block, a lap that runs past it, a record with
\* start >= end, a lap whose time is NaN
ParseLdxRecords ==
    IF Len(ldxRecs) >= MaxChain THEN {}
    ELSE {[start_offset |-> 0, end_offset |-> MaxSamples - 1, lap_time_s |-> 1],
          [start_offset |-> 1, end_offset |-> MaxSamples, lap_time_s |-> 1],
          [start_offset |-> 1, end_offset |-> 0, lap_time_s |-> 1],
          [start_offset |-> 0, end_offset |-> MaxSamples - 1, lap_time_s |-> NaN]}

\* sidecar records explored by the sidecar specification: start below, at
\* and above end, lap time negative, zero, positive and NaN
LdxRecords ==
    [start_offset : {0, 1}, end_offset : {0, 1}, lap_time_s : {0 - 1, 0, 1, NaN}]

\* the descriptor records a first read at ptr can find
DescriptorRecords(ptr) ==
    IF scope = "walk" THEN WalkRecords(ptr) ELSE ParseRecords(ptr)

\* the records a read of the sidecar can find
SidecarRecords ==
    IF scope = "ldx" THEN LdxRecords ELSE ParseLdxRecords

----------------------------------------------------------------------------
(* MotecParser.parse *)

NoResult == [kind |-> "pending", laps |-> <<>>]
ReturnNone == [kind |-> "none", laps |-> <<>>]
Raised == [kind |-> "raised", laps |-> <<>>]
NoLaps == [none |-> TRUE, laps |-> <<>>]

EmptyMap == [n \in {} |-> 0]

\* dict assignment d[k] = v
Put(d, k, v) == [x \in DOMAIN d \cup {k} |-> IF x = k THEN v ELSE d[x]]

\* the state of a parse call before its first statement
ParseStart ==
    /\ pc = "start"
    /\ exc = "none"
    /\ result = NoResult
    /\ ldx_path = FALSE
    /\ ldFile = EmptyMap
    /\ meta_ptr = 0
    /\ processed_offsets = {}
    /\ channels = EmptyMap
    /\ readLog = <<>>
    /\ walkEnd = "none"
    /\ ldxRecs = <<>>
    /\ lap_infos = <<>>
    /\ lap_num = 1
    /\ ldx_laps = NoLaps
    /\ lapIdx = 1
    /\ decodeLog = {}
    /\ session_laps = <<>>

\* lines 368-385: the extension of file_path decides the two paths
CheckPath ==
    /\ pc = "start"
    /\ IF ext = "ldx"
       THEN IF ldState = "missing"
            THEN /\ pc' = "done"
                 /\ result' = ReturnNone
                 /\ UNCHANGED ldx_path
            ELSE /\ pc' = "header"
                 /\ ldx_path' = TRUE
                 /\ UNCHANGED result
       ELSE IF ext = "ld"
            THEN /\ pc' = "header"
                 /\ ldx_path' = (ldxState # "missing")
                 /\ UNCHANGED result
            ELSE /\ pc' = "done"
                 /\ result' = ReturnNone
                 /\ UNCHANGED ldx_path
    /\ UNCHANGED <<normVars, fileVars, exc, walkVars, ldxVars, lapVars>>

\* _ldHead._read_header, lines 184-259: the exception that leaves it
HeadRaises(state) ==
    CASE state = "missing" -> "FileNotFoundError"
      [] state = "short" -> "ValueError"
      [] OTHER -> "none"

\* line 389: ld_head = _ldHead(ld_file_path)
ReadHeader ==
    /\ pc = "header"
    /\ exc' = HeadRaises(ldState)
    /\ pc' = IF exc' = "none" THEN "first" ELSE "handler"
    /\ UNCHANGED <<normVars, fileVars, result, ldx_path, walkVars, ldxVars, lapVars>>

\* the records a read at ptr can return: the file's bytes there, drawn from
\* DescriptorRecords(ptr) at the first read and the same on every later read; nothing
\* can be read from a file that is missing or unreadable
RecordsAt(ptr) ==
    IF ldState # "ok" THEN {ShortRecord}
    ELSE IF ptr \in DOMAIN ldFile THEN {ldFile[ptr]}
    ELSE DescriptorRecords(ptr)

\* the part of the file known after reading rec at ptr
Revealed(ptr, rec) == IF ldState = "ok" THEN Put(ldFile, ptr, rec) ELSE ldFile

\* processed_offsets.add(meta_ptr) without its effect
MarkProcessed_Forget(visited, ptr) == visited

\* lines 405 and 418: processed_offsets.add(meta_ptr)
MarkProcessed(visited, ptr) == visited \cup {ptr}

\* lines 399-414: the first channel, at the estimated offset
FirstChannel ==
    /\ pc = "first"
    /\ \E rec \in RecordsAt(FIRST_CHANNEL_OFFSET_GUESS) :
         /\ ldFile' = Revealed(FIRST_CHANNEL_OFFSET_GUESS, rec)
         /\ LET first_chan == LdChan(FIRST_CHANNEL_OFFSET_GUESS, rec)
            IN  /\ readLog' = Append(readLog, FIRST_CHANNEL_OFFSET_GUESS)
                /\ IF ChanValid(first_chan)
                   THEN /\ channels' = Put(channels, first_chan.name, first_chan)
                        /\ processed_offsets' =
                             MarkProcessed(processed_offsets, FIRST_CHANNEL_OFFSET_GUESS)
                        /\ meta_ptr' = first_chan.next_meta_ptr
                        /\ pc' = "walk"
                        /\ UNCHANGED <<result, walkEnd>>
                   ELSE /\ pc' = "done"
                        /\ result' = ReturnNone
                        /\ walkEnd' = "first_invalid"
                        /\ meta_ptr' = FIRST_CHANNEL_OFFSET_GUESS
                        /\ UNCHANGED <<channels, processed_offsets>>
    /\ UNCHANGED <<normVars, fileVars, exc, ldx_path, ldxVars, lapVars>>

\* the loop condition without the test of the visited offsets
WalkContinues_NoVisited(ptr, visited) == ptr # 0

\* line 417: the condition of the while loop
WalkContinues(ptr, visited) == ptr # 0 /\ ptr \notin visited

\* line 433: the limit on the offsets processed
LimitReached(visited) == Cardinality(visited) > MaxProcessed

\* lines 417-435: one iteration of the loop over the linked list
WalkStep ==
    /\ pc = "walk"
    /\ WalkContinues(meta_ptr, processed_offsets)
    /\ processed_offsets' = MarkProcessed(processed_offsets, meta_ptr)
    /\ \E rec \in RecordsAt(meta_ptr) :
         /\ ldFile' = Revealed(meta_ptr, rec)
         /\ LET chan == LdChan(meta_ptr, rec)
            IN  /\ readLog' = Append(readLog, meta_ptr)
                /\ IF ChanValid(chan)
                   THEN /\ channels' = Put(channels, chan.name, chan)
                        /\ meta_ptr' = chan.next_meta_ptr
                        /\ IF LimitReached(processed_offsets')
                           THEN pc' = "walked" /\ walkEnd' = "limit"
                           ELSE pc' = "walk" /\ UNCHANGED walkEnd
                   ELSE /\ pc' = "walked"
                        /\ walkEnd' = "invalid"
                        /\ UNCHANGED <<channels, meta_ptr>>
    /\ UNCHANGED <<normVars, fileVars, exc, result, ldx_path, ldxVars, lapVars>>

\* line 417: the loop condition is false
WalkExit ==
    /\ pc = "walk"
    /\ ~WalkContinues(meta_ptr, processed_offsets)
    /\ pc' = "walked"
    /\ walkEnd' = IF meta_ptr = 0 THEN "null" ELSE "cycle"
    /\ UNCHANGED <<normVars, fileVars, exc, result, ldx_path, meta_ptr, processed_offsets,
                   channels, readLog, ldFile, ldxVars, lapVars>>

\* lines 437-440: the check of the collected channels
CheckChannels ==
    /\ pc = "walked"
    /\ IF DOMAIN channels = {}
       THEN pc' = "done" /\ result' = ReturnNone
       ELSE pc' = "sidecar" /\ UNCHANGED result
    /\ UNCHANGED <<normVars, fileVars, exc, ldx_path, walkVars, ldxVars, lapVars>>

----------------------------------------------------------------------------
(* _parse_ldx *)

\* float comparison x <= y: False when either side is NaN
FloatLeq(x, y) == x # NaN /\ y # NaN /\ x <= y

\* line 296: the sanity check that skips a record
LdxRejects(rec) == rec.start_offset >= rec.end_offset \/ FloatLeq(rec.lap_time_s, 0)

\* _ldxLapInfo(lap_num, start_offset, end_offset, lap_time_s)
LdxLapInfo(n, rec) ==
    [lap_num |-> n, start_offset |-> rec.start_offset,
     end_offset |-> rec.end_offset, lap_time_s |-> rec.lap_time_s]

\* the value _parse_ldx returns for the laps it accepted, lines 304-309
LdxReturn(infos) ==
    IF infos = <<>> THEN NoLaps ELSE [none |-> FALSE, laps |-> infos]

\* lines 442-445: the sidecar is parsed when its path is set and it exists
ReadSidecar ==
    /\ pc = "sidecar"
    /\ IF ldx_path /\ ldxState # "missing"
       THEN pc' = "ldx_open"
       ELSE pc' = "segment"
    /\ ldx_laps' = NoLaps
    /\ UNCHANGED <<normVars, fileVars, exc, result, ldx_path, walkVars, ldxRecs, lap_infos,
                   lap_num, lapVars>>

\* _parse_ldx without its handlers: a sidecar that cannot be opened raises
\* into parse
LdxOpen_Unhandled ==
    /\ pc = "ldx_open"
    /\ lap_infos' = <<>>
    /\ lap_num' = 1
    /\ IF ldxState = "ok"
       THEN pc' = "ldx_loop" /\ UNCHANGED exc
       ELSE pc' = "handler" /\ exc' = "OSError"
    /\ UNCHANGED <<normVars, fileVars, result, ldx_path, walkVars, ldxRecs, ldx_laps, lapVars>>

\* lines 282-287 and 311-316: open the sidecar and skip its header; a file
\* that cannot be opened gives None
LdxOpen ==
    /\ pc = "ldx_open"
    /\ lap_infos' = <<>>
    /\ lap_num' = 1
    /\ IF ldxState = "ok"
       THEN pc' = "ldx_loop" /\ UNCHANGED ldx_laps
       ELSE pc' = "segment" /\ ldx_laps' = NoLaps
    /\ UNCHANGED <<normVars, fileVars, exc, result, ldx_path, walkVars, ldxRecs, lapVars>>

\* lines 288-302: one iteration that reads a whole record
LdxRecord ==
    /\ pc = "ldx_loop"
    /\ Len(ldxRecs) < MaxRecords
    /\ \E rec \in SidecarRecords :
         /\ ldxRecs' = Append(ldxRecs, rec)
         /\ IF LdxRejects(rec)
            THEN UNCHANGED <<lap_infos, lap_num>>
            ELSE /\ lap_infos' = Append(lap_infos, LdxLapInfo(lap_num, rec))
                 /\ lap_num' = lap_num + 1
    /\ UNCHANGED <<normVars, fileVars, pc, exc, result, ldx_path, walkVars, ldx_laps, lapVars>>

\* lines 289-291 and 304-309: the read comes back empty or short, the loop
\* ends and the function returns
LdxEnd ==
    /\ pc = "ldx_loop"
    /\ ldx_laps' = LdxReturn(lap_infos)
    /\ pc' = "segment"
    /\ UNCHANGED <<normVars, fileVars, exc, result, ldx_path, walkVars, ldxRecs, lap_infos,
                   lap_num, lapVars>>

----------------------------------------------------------------------------
(* _ldChan.get_data *)

GetDataNone == [none |-> TRUE, data |-> <<>>]

\* the decoded value of sample i (0-based) of the channel's data block; the
\* block holds rising values, or NaN (a float block)
SampleValue(chan, i) == IF chan.prof = "inc" THEN i + 1 ELSE NaN

\* the range check with its last test off by one
RangeInvalid_OffByOne(start_index, count, data_len) ==
    start_index < 0 \/ count <= 0 \/ start_index + count > data_len + 1

\* line 140: the check of start_index and count against data_len
RangeInvalid(start_index, count, data_len) ==
    start_index < 0 \/ count <= 0 \/ start_index + count > data_len

\* the read with a short read treated as a failure
GetDataRange_ShortFails(chan, start_index, count) ==
    IF RangeInvalid(start_index, count, chan.data_len) \/ chan.avail - start_index < count
    THEN GetDataNone
    ELSE [none |-> FALSE,
          data |-> [k \in 1..count |-> SampleValue(chan, start_index + k - 1)]]

\* lines 140-158, count given: the range check, the read of up to count
\* elements (fewer when the file ends before them), the conversion
GetDataRange(chan, start_index, count) ==
    IF RangeInvalid(start_index, count, chan.data_len)
    THEN GetDataNone
    ELSE LET read == Min(count, Max(0, chan.avail - start_index))
         IN  IF read = 0
             THEN GetDataNone
             ELSE [none |-> FALSE,
                   data |-> [k \in 1..read |-> SampleValue(chan, start_index + k - 1)]]

\* lines 133-142: get_data(start_index, count)
GetData(chan, start_index, count) ==
    IF chan.np_dtype = "None" \/ chan.data_len = 0
    THEN GetDataNone
    ELSE GetDataRange(chan, start_index, count)

\* get_data(): start_index = 0 and count = data_len - start_index
GetDataAll(chan) ==
    IF chan.np_dtype = "None" \/ chan.data_len = 0
    THEN GetDataNone
    ELSE GetDataRange(chan, 0, chan.data_len - 0)

\* lines 138-139: get_data(start_index) with count omitted
GetDataFrom(chan, start_index) ==
    IF chan.np_dtype = "None" \/ chan.data_len = 0
    THEN GetDataNone
    ELSE GetDataRange(chan, start_index, chan.data_len - start_index)

----------------------------------------------------------------------------
(* _ldChan: the conversion of the samples.  Values are exact fractions      *)
(* <<numerator, denominator>>; a denominator 0 is a division by zero.      *)

\* the recorded scale without the guard
EffScale_Recorded(scale) == scale

\* lines 114-116: scale == 0 becomes 1
EffScale(scale) == IF scale = 0 THEN 1 ELSE scale

\* lines 117-121: mul == 0 becomes 1
EffMul(mul) == IF mul = 0 THEN 1 ELSE mul

\* 10 ** k for k >= 0
RECURSIVE Pow10(_)
Pow10(k) == IF k <= 0 THEN 1 ELSE 10 * Pow10(k - 1)

\* pow(10., -dec) as a fraction
Pow10Neg(dec) == IF dec >= 0 THEN <<1, Pow10(dec)>> ELSE <<Pow10(0 - dec), 1>>

RatDiv(q, d) == <<q[1], q[2] * d>>
RatMul(q, r) == <<q[1] * r[1], q[2] * r[2]>>
RatAdd(q, k) == <<q[1] + k * q[2], q[2]>>
RatEq(q, r) == q[2] # 0 /\ r[2] # 0 /\ q[1] * r[2] = r[1] * q[2]

\* line 157: (raw / self.scale * pow(10., -self.dec) + self.shift) * self.mul,
\* in the order the expression is evaluated
Convert(raw, chan) ==
    RatMul(RatAdd(RatMul(RatDiv(<<raw, 1>>, chan.scale), Pow10Neg(chan.dec)), chan.shift),
           <<chan.mul, 1>>)

\* _ldChan.__init__ and _read_header, lines 58-121, for the fields of the conversion
LdChanConv(rec) ==
    [name |-> "Ch", meta_ptr |-> 1, next_meta_ptr |-> 0, prof |-> "inc",
     np_dtype |-> NpDtype(rec.dtype_code_a, rec.dtype_code_b),
     data_len |-> rec.data_len, avail |-> rec.avail,
     shift |-> rec.shift, mul |-> EffMul(rec.mul), scale |-> EffScale(rec.scale),
     dec |-> rec.dec]

\* no pair of parse calls is in progress
CallsIdle ==
    /\ files = <<>>
    /\ calls = <<>>
    /\ interleaved = FALSE

NoChan == [name |-> "", np_dtype |-> "None"]
NoArgs == [start_index |-> 0, count |-> 0, omitted |-> TRUE]
NoChanRec ==
    [dtype_code_a |-> 0, dtype_code_b |-> 0, data_len |-> 0, avail |-> 0,
     shift |-> 0, mul |-> 0, scale |-> 0, dec |-> 0, raw |-> <<>>]

\* no _ldChan object is in use on its own
DecodeIdle ==
    /\ dpc = "idle"
    /\ chanRec = NoChanRec
    /\ chanObj = NoChan
    /\ call_args = NoArgs
    /\ converted_data = GetDataNone
    /\ dataReads = 0
    /\ CallsIdle

\* the descriptor records and data blocks of the conversion: recorded scale
\* and multiplier zero or not, decimal places negative, zero, positive, a data
\* block that is whole or cut short by one element, a type that is not mapped
ConvRecords ==
    {[dtype_code_a |-> a, dtype_code_b |-> 2, data_len |-> n, avail |-> Max(0, n - cut),
      shift |-> sh, mul |-> m, scale |-> sc, dec |-> d, raw |-> raw] :
        a \in {0, 9}, n \in 0..MaxSamples, cut \in {0, 1}, sh \in {0, 1},
        m \in {0, 2}, sc \in {0, 10}, d \in {0 - 1, 0, 2},
        raw \in [1..MaxSamples -> {100, 200}]}

\* the arguments of a get_data call: in range, out of range on either side,
\* count omitted
CallArgs ==
    [start_index : (0 - 1)..(MaxSamples + 1), count : (0 - 1)..(MaxSamples + 1),
     omitted : {FALSE}]
    \cup [start_index : (0 - 1)..(MaxSamples + 1), count : {0}, omitted : {TRUE}]

\* chan = _ldChan(f_path, meta_ptr)
DecodeHeader ==
    /\ dpc = "header"
    /\ chanObj' = LdChanConv(chanRec)
    /\ dpc' = "call"
    /\ UNCHANGED <<restVars, callVars, handleVars, chanRec, call_args, converted_data, dataReads>>

\* chan.get_data(start_index, count) or chan.get_data(start_index), lines 133-162
DecodeCall ==
    /\ dpc = "call"
    /\ \E args \in CallArgs :
         /\ call_args' = args
         /\ LET count == IF args.omitted
                         THEN chanObj.data_len - args.start_index
                         ELSE args.count
                got == IF args.omitted
                       THEN GetDataFrom(chanObj, args.start_index)
                       ELSE GetData(chanObj, args.start_index, args.count)
            IN  /\ dataReads' =
                     IF chanObj.np_dtype = "None" \/ chanObj.data_len = 0
                        \/ RangeInvalid(args.start_index, count, chanObj.data_len)
                     THEN dataReads
                     ELSE dataReads + 1
                /\ converted_data' =
                     IF got.none
                     THEN GetDataNone
                     ELSE [none |-> FALSE,
                           data |-> [k \in 1..Len(got.data) |->
                                        Convert(chanRec.raw[args.start_index + k], chanObj)]]
    /\ dpc' = "done"
    /\ UNCHANGED <<restVars, callVars, handleVars, chanRec, chanObj>>

----------------------------------------------------------------------------
(* MotecParser.parse: laps *)

\* CHANNEL_MAP.get(chan_name, chan_name), lines 323-360, for the names of the model
StdName(chan_name) ==
    CASE chan_name = "Time" -> "timestamp_s"
      [] chan_name = "Distance" -> "distance_m"
      [] chan_name = "RPM" -> "rpm"
      [] OTHER -> chan_name

\* lines 480-486 / 562-568: lap_data_dict, from the decode of every channel
\* (dec: channel name -> result of get_data)
LapDataDict(dec) ==
    LET got == {n \in DOMAIN dec : ~dec[n].none /\ Len(dec[n].data) > 0}
    IN  [k \in {StdName(n) : n \in got} |->
            dec[CHOOSE n \in got : StdName(n) = k].data]

\* min_samples_in_lap: the length of the shortest decoded array
MinSamples(dict) ==
    CHOOSE m \in {Len(dict[k]) : k \in DOMAIN dict} :
        \A k \in DOMAIN dict : m <= Len(dict[k])

\* lines 499-504: the timestamp key is found
HasTimestamp(dict) == "timestamp_s" \in DOMAIN dict

\* lines 506-543: int(point_data[timestamp_key] * 1000) raises ValueError on NaN
PointsRaise(dict, num_samples) ==
    HasTimestamp(dict) /\ \E i \in 1..num_samples : dict["timestamp_s"][i] = NaN

\* lines 506-543: one DataPoint per index below num_samples (the fields the
\* model follows: the others are filled the same way)
DataPoints(dict, num_samples) ==
    [i \in 1..num_samples |->
        [timestamp_ms |-> IF HasTimestamp(dict) THEN dict["timestamp_s"][i] * 1000 ELSE 0,
         distance_m |-> IF "distance_m" \in DOMAIN dict THEN dict["distance_m"][i] ELSE 0,
         rpm |-> IF "rpm" \in DOMAIN dict THEN dict["rpm"][i] ELSE 0]]

LapData(n, time_ms, points) ==
    [lap_number |-> n, lap_time_ms |-> time_ms, data_points |-> points]

\* lines 447-468: session_info and track_data are built, then the branch on ldx_laps
BeginSegment ==
    /\ pc = "segment"
    /\ pc' = IF ldx_laps.none THEN "whole" ELSE "laps"
    /\ lapIdx' = 1
    /\ session_laps' = <<>>
    /\ UNCHANGED <<normVars, fileVars, exc, result, ldx_path, walkVars, ldxVars, decodeLog>>

\* lines 470-553: one iteration of the loop over ldx_laps
ProcessLap ==
    /\ pc = "laps"
    /\ lapIdx <= Len(ldx_laps.laps)
    /\ LET ldx_lap == ldx_laps.laps[lapIdx]
           start_idx == ldx_lap.start_offset
           count == ldx_lap.end_offset - start_idx + 1
           dec == [n \in DOMAIN channels |-> GetData(channels[n], start_idx, count)]
           dict == LapDataDict(dec)
       IN  /\ decodeLog' = decodeLog \cup {<<lapIdx, n>> : n \in DOMAIN channels}
           /\ IF DOMAIN dict = {}
              THEN /\ lapIdx' = lapIdx + 1
                   /\ UNCHANGED <<pc, exc, session_laps>>
              ELSE IF PointsRaise(dict, MinSamples(dict)) \/ ldx_lap.lap_time_s = NaN
                   THEN /\ pc' = "handler"
                        /\ exc' = "ValueError"
                        /\ UNCHANGED <<lapIdx, session_laps>>
                   ELSE /\ session_laps' = Append(session_laps,
                                LapData(ldx_lap.lap_num, ldx_lap.lap_time_s * 1000,
                                        DataPoints(dict, MinSamples(dict))))
                        /\ lapIdx' = lapIdx + 1
                        /\ UNCHANGED <<pc, exc>>
    /\ UNCHANGED <<normVars, fileVars, result, ldx_path, walkVars, ldxVars>>

\* the loop over ldx_laps is over
LapsDone ==
    /\ pc = "laps"
    /\ lapIdx > Len(ldx_laps.laps)
    /\ pc' = "finish"
    /\ UNCHANGED <<normVars, fileVars, exc, result, ldx_path, walkVars, ldxVars, lapVars>>

\* lines 554-631: the whole session as one lap
ProcessSession ==
    /\ pc = "whole"
    /\ LET dec == [n \in DOMAIN channels |-> GetDataAll(channels[n])]
           dict == LapDataDict(dec)
       IN  /\ decodeLog' = decodeLog \cup {<<0, n>> : n \in DOMAIN channels}
           /\ IF DOMAIN dict = {}
              THEN /\ pc' = "done"
                   /\ result' = ReturnNone
                   /\ UNCHANGED <<exc, session_laps>>
              ELSE IF PointsRaise(dict, MinSamples(dict))
                   THEN /\ pc' = "handler"
                        /\ exc' = "ValueError"
                        /\ UNCHANGED <<result, session_laps>>
                   ELSE /\ session_laps' = Append(session_laps,
                                LapData(1, 0, DataPoints(dict, MinSamples(dict))))
                        /\ pc' = "finish"
                        /\ UNCHANGED <<exc, result>>
    /\ UNCHANGED <<normVars, fileVars, ldx_path, walkVars, ldxVars, lapIdx>>

\* the session returned whatever its laps
SessionResult_Always(laps) == [kind |-> "session", laps |-> laps]

\* lines 633-645: the session is returned when it has a lap
SessionResult(laps) ==
    IF laps = <<>> THEN ReturnNone ELSE [kind |-> "session", laps |-> laps]

Finish ==
    /\ pc = "finish"
    /\ result' = SessionResult(session_laps)
    /\ pc' = "done"
    /\ UNCHANGED <<normVars, fileVars, exc, ldx_path, walkVars, ldxVars, lapVars>>

\* a handler that lets the exception leave parse
ParseExcept_Raise(e) == Raised

\* lines 647-649: `except Exception` logs and returns None
ParseExcept(e) == ReturnNone

Handler ==
    /\ pc = "handler"
    /\ result' = ParseExcept(exc)
    /\ pc' = "done"
    /\ UNCHANGED <<normVars, fileVars, exc, ldx_path, walkVars, ldxVars, lapVars>>

----------------------------------------------------------------------------
(* TelemetryNormalizer *)

NormPending == [kind |-> "pending", laps |-> <<>>, markers |-> <<>>]
\* raw_data is no TelemetrySession
NoSession == [laps |-> <<>>, markers |-> <<>>]
NormNone == [kind |-> "none", laps |-> <<>>, markers |-> <<>>]

\* no read operation is followed handle by handle
HandlesIdle ==
    /\ hpc = "idle"
    /\ hop = "start"
    /\ open_files = {}
    /\ opLog = <<>>

\* no normalize call is in progress
NormIdle ==
    /\ source_format = "motec"
    /\ raw_kind = "dict"
    /\ samples = EmptyMap
    /\ npc = "idle"
    /\ mapped_channels = EmptyMap
    /\ lap_i = 0
    /\ laps_data = <<>>
    /\ sector_markers_m = <<>>
    /\ lapsCalled = FALSE
    /\ boundaryLog = <<>>
    /\ nresult = NormPending
    /\ raw_session = NoSession
    /\ first_result = NormPending

\* no parse call is in progress
ParseIdle ==
    /\ scope = "norm"
    /\ ext = "ld"
    /\ ldState = "ok"
    /\ ldxState = "missing"
    /\ pc = "idle"
    /\ exc = "none"
    /\ result = NoResult
    /\ ldx_path = FALSE
    /\ ldFile = EmptyMap
    /\ meta_ptr = 0
    /\ processed_offsets = {}
    /\ channels = EmptyMap
    /\ readLog = <<>>
    /\ walkEnd = "none"
    /\ ldxRecs = <<>>
    /\ lap_infos = <<>>
    /\ lap_num = 1
    /\ ldx_laps = NoLaps
    /\ lapIdx = 1
    /\ decodeLog = {}
    /\ session_laps = <<>>

\* str.lower() on the channel names of the model
Lower(name) ==
    CASE name \in {"Lap", "LAP"} -> "lap"
      [] name \in {"Time"} -> "time"
      [] name \in {"Distance", "DISTANCE"} -> "distance"
      [] name \in {"Track Distance"} -> "track distance"
      [] name \in {"Sector"} -> "sector"
      [] OTHER -> name

\* channel_mapping, lines 54-121: the entries for the channels the model follows
ChannelMappingKeys == {"Lap", "Time", "Distance", "Track Distance", "Sector"}

ChannelMapping(key) ==
    CASE key = "Lap" -> "lap_number"
      [] key = "Time" -> "timestamp_s"
      [] key \in {"Distance", "Track Distance"} -> "distance_m"
      [] OTHER -> "sector"

\* _find_channel_mapping, lines 332-344: the exact name first, then the name
\* without case; "" stands for None
FindChannelMapping(channel_name) ==
    IF channel_name \in ChannelMappingKeys
    THEN ChannelMapping(channel_name)
    ELSE IF \E k \in ChannelMappingKeys : Lower(k) = Lower(channel_name)
         THEN ChannelMapping(CHOOSE k \in ChannelMappingKeys :
                                 Lower(k) = Lower(channel_name))
         ELSE ""

\* the essential channels without the distance
RequiredChannels_NoDistance == {"lap_number", "timestamp_s"}

\* line 131: required_channels
RequiredChannels == {"lap_number", "timestamp_s", "distance_m"}

\* lines 130-136: the essential channels that are not mapped
MissingChannels(mapped) == {ch \in RequiredChannels : ch \notin DOMAIN mapped}

\* seq[k] with the 0-based index of the source
At(seq, k) == seq[k + 1]
InRange(seq, k) == 0 <= k /\ k < Len(seq)

\* seq[a:b] of the source, a <= b: the slice stops at the end of the array
Slice(seq, a, b) ==
    LET hi == Min(b, Len(seq))
    IN  IF a >= hi THEN <<>> ELSE [k \in 1..(hi - a) |-> seq[a + k]]

\* the indices whose value differs from the one before
Rises_AnyChange(a) == {k \in 1..(Len(a) - 1) : At(a, k) - At(a, k - 1) # 0}

\* np.where(np.diff(a) > 0)[0] + 1: the indices whose value is above the one before
Rises(a) == {k \in 1..(Len(a) - 1) : At(a, k) - At(a, k - 1) > 0}

\* the sector changes taken as the rises only
Changes_OnlyRises(a) == {k \in 1..(Len(a) - 1) : At(a, k) - At(a, k - 1) > 0}

\* np.where(np.diff(a) != 0)[0] + 1
Changes(a) == {k \in 1..(Len(a) - 1) : At(a, k) - At(a, k - 1) # 0}

\* the elements of a set of integers in increasing order
RECURSIVE Sorted(_)
Sorted(S) ==
    IF S = {} THEN <<>>
    ELSE LET m == CHOOSE x \in S : \A y \in S : x <= y
         IN  <<m>> \o Sorted(S \ {m})

\* the end indices with the last lap ending one sample early
EndIndices_LastShort(lap_numbers, num_samples) ==
    Sorted(Rises(lap_numbers)) \o <<num_samples - 1>>

\* lines 193-195: start_indices and end_indices
StartIndices(lap_numbers) == <<0>> \o Sorted(Rises(lap_numbers))
EndIndices(lap_numbers, num_samples) == Sorted(Rises(lap_numbers)) \o <<num_samples>>

\* lines 123-128: mapped_channels.  When several input names map to one
\* standard name the last one in the dict's order stays, and any of them can
\* be the last
MappedChoices(smp) ==
    LET stds == {FindChannelMapping(n) : n \in DOMAIN smp} \ {""}
        lasts == {L \in SUBSET {n \in DOMAIN smp : FindChannelMapping(n) # ""} :
                     \A std \in stds :
                         Cardinality({n \in L : FindChannelMapping(n) = std}) = 1}
    IN  {[std \in stds |-> smp[CHOOSE n \in L : FindChannelMapping(n) = std]] :
            L \in lasts}

\* lines 311-325: the iterations i, i+1, ... of the loop over the sector
\* segments; acc is [times, markers, ok], an exception ends the loop
RECURSIVE SectorLoop(_, _, _, _, _, _, _)
SectorLoop(i, starts, ends, sectors, timestamps, distances, acc) ==
    IF i > Len(starts) THEN acc
    ELSE LET start_idx == starts[i]
             end_idx == ends[i]
         IN  IF start_idx >= end_idx
             THEN SectorLoop(i + 1, starts, ends, sectors, timestamps, distances, acc)
             ELSE IF At(sectors, start_idx) <= 0
             THEN SectorLoop(i + 1, starts, ends, sectors, timestamps, distances, acc)
             ELSE IF ~InRange(timestamps, end_idx - 1) \/ ~InRange(timestamps, start_idx)
             THEN acc
             ELSE LET sector_time == At(timestamps, end_idx - 1) - At(timestamps, start_idx)
                      times == Append(acc.times, sector_time * 1000)
                  IN  IF Len(acc.markers) < At(sectors, start_idx)
                      THEN IF ~InRange(distances, start_idx)
                           THEN [times |-> times, markers |-> acc.markers]
                           ELSE SectorLoop(i + 1, starts, ends, sectors, timestamps,
                                    distances,
                                    [times |-> times,
                                     markers |-> Append(acc.markers,
                                                        At(distances, start_idx))])
                      ELSE SectorLoop(i + 1, starts, ends, sectors, timestamps,
                               distances, [times |-> times, markers |-> acc.markers])

\* _calculate_sector_times, lines 301-330: [times, markers]
CalculateSectorTimes(sectors, timestamps, distances, markers) ==
    SectorLoop(1, <<0>> \o Sorted(Changes(sectors)),
               Sorted(Changes(sectors)) \o <<Len(sectors)>>,
               sectors, timestamps, distances,
               [times |-> <<>>, markers |-> markers])

\* _create_data_point, lines 247-299, raises inside (an index past the end of a
\* channel) and returns None
PointFails(chs, index) ==
    \E ch \in DOMAIN chs \cap {"timestamp_s", "distance_m", "sector"} :
        ~InRange(chs[ch], index)

\* _create_data_point, lines 251-266: the fields the model follows
CreateDataPoint(chs, index, lap_start_time) ==
    [timestamp_ms |-> At(chs["timestamp_s"], index) * 1000,
     distance_m |-> At(chs["distance_m"], index),
     lap_time_ms |-> (At(chs["timestamp_s"], index) - lap_start_time) * 1000,
     sector |-> IF "sector" \in DOMAIN chs THEN At(chs["sector"], index) ELSE 0]

\* lines 226-230: the data points of the samples start_idx .. end_idx - 1,
\* without those _create_data_point could not build
RECURSIVE LapPoints(_, _, _, _)
LapPoints(chs, j, end_idx, lap_start_time) ==
    IF j >= end_idx THEN <<>>
    ELSE (IF PointFails(chs, j) THEN <<>>
          ELSE <<CreateDataPoint(chs, j, lap_start_time)>>)
         \o LapPoints(chs, j + 1, end_idx, lap_start_time)

\* the test of the lap number left out
LapDropped_Never(current_lap) == FALSE

\* lines 205-207: `if current_lap <= 0: continue`
LapDropped(current_lap) == current_lap <= 0

\* the lap time measured from the first sample of the stream
LapTimeMs_FromStreamStart(timestamps, start_idx, end_idx) ==
    (At(timestamps, end_idx - 1) - At(timestamps, 0)) * 1000

\* lines 208-210: lap_start_time, lap_end_time, lap_time_ms
LapTimeMs(timestamps, start_idx, end_idx) ==
    (At(timestamps, end_idx - 1) - At(timestamps, start_idx)) * 1000

NormLapData(n, time_ms, sector_times, points) ==
    [lap_number |-> n, lap_time_ms |-> time_ms, sector_times_ms |-> sector_times,
     data_points |-> points]

\* the session built again from the laps of raw_data, with a new track_data
ReturnRawData_Rebuilt(session) ==
    [kind |-> "raw_data", laps |-> session.laps, markers |-> <<>>]

\* lines 35-37 and 362-364: `return raw_data`, the session object it was given
ReturnRawData(session) ==
    [kind |-> "raw_data", laps |-> session.laps, markers |-> session.markers]

\* an exception left normalize
NormRaised == [kind |-> "raised", laps |-> <<>>, markers |-> <<>>]

\* _normalize_csv, lines 365-397, for raw_data that is no session: a dict with
\* "laps" becomes TelemetrySession(**raw_data), which raises when the dict
\* lacks session_info or track_data; a list of DataPoints becomes a session
\* of one lap numbered 1 with lap time 0; anything else gives no session
NormalizeCsv(kind, raw) ==
    CASE kind = "laps_dict" -> [kind |-> "built", laps |-> raw.laps, markers |-> raw.markers]
      [] kind = "laps_only_dict" -> NormRaised
      [] kind = "points" ->
           [kind |-> "built", laps |-> <<NormLapData(1, 0, <<>>, <<>>)>>, markers |-> <<>>]
      [] OTHER -> NormNone

\* normalize, lines 17-29, and _normalize_motec up to the call of
\* _process_laps_from_samples, lines 31-157
NormalizeCall ==
    /\ npc = "call"
    /\ IF source_format = "motec" /\ raw_kind = "dict" /\ DOMAIN samples # {}
       THEN \E m \in MappedChoices(samples) :
              /\ mapped_channels' = m
              /\ IF MissingChannels(m) # {}
                 THEN /\ npc' = "done"
                      /\ nresult' = NormNone
                      /\ UNCHANGED lapsCalled
                 ELSE /\ npc' = "laps"
                      /\ lapsCalled' = TRUE
                      /\ UNCHANGED nresult
       ELSE /\ npc' = "done"
            /\ nresult' = IF source_format \in {"motec", "csv"} /\ raw_kind = "session"
                          THEN ReturnRawData(raw_session)
                          ELSE IF source_format = "csv"
                               THEN NormalizeCsv(raw_kind, raw_session)
                               ELSE NormNone
            /\ UNCHANGED <<mapped_channels, lapsCalled>>
    /\ lap_i' = 0
    /\ laps_data' = <<>>
    /\ sector_markers_m' = <<>>
    /\ boundaryLog' = <<>>
    /\ UNCHANGED <<parseVars, idemVars, source_format, raw_kind, samples>>

\* lines 199-240: one iteration of the loop over the laps; an exception ends
\* the loop and the laps built so far are returned (lines 242-245)
NormLap ==
    /\ npc = "laps"
    /\ LET lap_numbers == mapped_channels["lap_number"]
           timestamps == mapped_channels["timestamp_s"]
           distances == mapped_channels["distance_m"]
           starts == StartIndices(lap_numbers)
           ends == EndIndices(lap_numbers, Len(timestamps))
       IN  /\ lap_i < Len(starts)
           /\ LET start_idx == At(starts, lap_i)
                  end_idx == At(ends, lap_i)
              IN  /\ boundaryLog' = Append(boundaryLog, <<start_idx, end_idx - 1>>)
                  /\ IF start_idx >= end_idx
                     THEN /\ lap_i' = lap_i + 1
                          /\ UNCHANGED <<npc, laps_data, sector_markers_m>>
                     ELSE IF ~InRange(lap_numbers, start_idx)
                     THEN /\ npc' = "return"
                          /\ UNCHANGED <<lap_i, laps_data, sector_markers_m>>
                     ELSE IF LapDropped(At(lap_numbers, start_idx))
                     THEN /\ lap_i' = lap_i + 1
                          /\ UNCHANGED <<npc, laps_data, sector_markers_m>>
                     ELSE IF ~InRange(timestamps, start_idx) \/ ~InRange(timestamps, end_idx - 1)
                     THEN /\ npc' = "return"
                          /\ UNCHANGED <<lap_i, laps_data, sector_markers_m>>
                     ELSE LET lap_start_time == At(timestamps, start_idx)
                              lap_time_ms == LapTimeMs(timestamps, start_idx, end_idx)
                              sect == IF "sector" \in DOMAIN mapped_channels
                                      THEN CalculateSectorTimes(
                                               Slice(mapped_channels["sector"], start_idx, end_idx),
                                               Slice(timestamps, start_idx, end_idx),
                                               Slice(distances, start_idx, end_idx),
                                               sector_markers_m)
                                      ELSE [times |-> <<>>, markers |-> sector_markers_m]
                              data_points == LapPoints(mapped_channels, start_idx, end_idx,
                                                       lap_start_time)
                          IN  /\ sector_markers_m' = sect.markers
                              /\ laps_data' =
                                    IF data_points # <<>>
                                    THEN Append(laps_data,
                                             NormLapData(At(lap_numbers, start_idx), lap_time_ms,
                                                         sect.times, data_points))
                                    ELSE laps_data
                              /\ lap_i' = lap_i + 1
                              /\ UNCHANGED npc
    /\ UNCHANGED <<parseVars, idemVars, source_format, raw_kind, samples, mapped_channels,
                   lapsCalled, nresult>>

\* the loop over the laps is over
NormLapsDone ==
    /\ npc = "laps"
    /\ lap_i >= Len(StartIndices(mapped_channels["lap_number"]))
    /\ npc' = "return"
    /\ UNCHANGED <<parseVars, idemVars, source_format, raw_kind, samples, mapped_channels, lap_i,
                   laps_data, sector_markers_m, lapsCalled, boundaryLog, nresult>>

\* lines 159-176: no session without a lap
NormResult(laps, markers) ==
    IF laps = <<>> THEN NormNone
    ELSE [kind |-> "session", laps |-> laps, markers |-> markers]

NormFinish ==
    /\ npc = "return"
    /\ nresult' = NormResult(laps_data, sector_markers_m)
    /\ npc' = "done"
    /\ UNCHANGED <<parseVars, idemVars, source_format, raw_kind, samples, mapped_channels, lap_i,
                   laps_data, sector_markers_m, lapsCalled, boundaryLog>>

\* the sessions handed to normalize: without laps, with one lap, with a lap
\* numbered 0, with sector markers
RawSessions ==
    {[laps |-> <<>>, markers |-> <<>>],
     [laps |-> <<NormLapData(1, 1000, <<>>, <<>>)>>, markers |-> <<>>],
     [laps |-> <<NormLapData(0, 0, <<>>, <<>>), NormLapData(2, 2000, <<1000>>, <<>>)>>,
      markers |-> <<0, 20>>]}

\* what normalize is handed as raw_data
RawKinds == {"dict", "session", "laps_dict", "laps_only_dict", "points", "other"}

\* the channel arrays handed to normalize
LapNumberArrays ==
    UNION {[1..n -> 0..2] : n \in 0..MaxNormSamples} \cup {<<1, 1, 1, 2, 2, 3>>}

TimeArrays ==
    {[k \in 1..n |-> k] : n \in 0..MaxNormSamples} \cup {<<2, 1>>, <<1, 3, 2>>}
        \cup {<<1, 2, 3, 4, 5, 6>>}

DistanceArrays == {<<0, 10>>, <<0, 10, 20>>, <<10, 0, 5>>, <<0, 10, 20, 30, 40, 50>>}

SectorArrays == {<<1, 1, 2>>, <<1, 2, 1>>, <<0, 2, 2>>, <<2, 1>>, <<1, 1, 2, 2, 2, 3>>}

\* the names of the input channels: mapped exactly, mapped without case,
\* two names of one standard channel, a name that is not mapped
NormNames == {"Lap", "Time", "Distance", "DISTANCE", "Sector", "Foo"}

\* a channel that is not in the dict
Absent == <<0 - 1>>

\* every dict of the names above, each present with one of its arrays or absent
SampleDicts ==
    {[n \in {m \in NormNames : r[m] # Absent} |-> r[n]] :
        r \in [Lap : LapNumberArrays \cup {Absent}, Time : TimeArrays \cup {Absent},
               Distance : DistanceArrays \cup {Absent},
               DISTANCE : {<<5, 6, 7>>, Absent},
               Sector : SectorArrays \cup {Absent}, Foo : {<<7, 7>>, Absent}]}

InitNorm ==
    /\ ParseIdle
    /\ HandlesIdle
    /\ DecodeIdle
    /\ source_format \in {"motec", "ibt", "csv", "other"}
    /\ raw_kind \in RawKinds
    /\ samples \in IF source_format = "motec" /\ raw_kind = "dict"
                   THEN SampleDicts ELSE {EmptyMap}
    /\ npc = "call"
    /\ mapped_channels = EmptyMap
    /\ lap_i = 0
    /\ laps_data = <<>>
    /\ sector_markers_m = <<>>
    /\ lapsCalled = FALSE
    /\ boundaryLog = <<>>
    /\ nresult = NormPending
    /\ raw_session \in CASE raw_kind \in {"session", "laps_dict"} -> RawSessions
                          [] raw_kind = "laps_only_dict" ->
                               {r \in RawSessions : r.markers = <<>>}
                          [] OTHER -> {NoSession}
    /\ first_result = NormPending

NextNorm ==
    \/ NormalizeCall
    \/ NormLap
    \/ NormLapsDone
    \/ NormFinish

SpecNorm == InitNorm /\ [][NextNorm]_vars

\* whether a value returned by normalize is a TelemetrySession
IsSession(r) == r.kind \in {"session", "raw_data", "built"}

\* normalize(normalize(x)): the value the first call returned is handed to a
\* second call with the same source format (lines 17-29)
NormalizeAgain ==
    /\ npc = "done"
    /\ first_result = NormPending
    /\ nresult.kind # "raised"
    /\ first_result' = nresult
    /\ raw_kind' = IF IsSession(nresult) THEN "session" ELSE "other"
    /\ raw_session' = IF IsSession(nresult)
                      THEN [laps |-> nresult.laps, markers |-> nresult.markers]
                      ELSE NoSession
    /\ samples' = EmptyMap
    /\ npc' = "call"
    /\ nresult' = NormPending
    /\ UNCHANGED <<parseVars, source_format, mapped_channels, lap_i, laps_data,
                   sector_markers_m, lapsCalled, boundaryLog>>

InitIdem == InitNorm

NextIdem ==
    \/ NextNorm
    \/ NormalizeAgain

SpecIdem == InitIdem /\ [][NextIdem]_vars

----------------------------------------------------------------------------
(* The whole parse, on forward chains of at most MaxChain descriptors and  *)
(* sidecars of at most MaxChain records.                                   *)

Init ==
    /\ scope = "parse"
    /\ ext \in {"ld", "ldx", "other"}
    /\ ldState \in {"missing", "unreadable", "short", "ok"}
    /\ ldxState \in {"missing", "unreadable", "ok"}
    /\ ParseStart
    /\ NormIdle
    /\ HandlesIdle
    /\ DecodeIdle

Next ==
    \/ CheckPath
    \/ ReadHeader
    \/ FirstChannel
    \/ WalkStep
    \/ WalkExit
    \/ CheckChannels
    \/ ReadSidecar
    \/ LdxOpen
    \/ LdxRecord
    \/ LdxEnd
    \/ BeginSegment
    \/ ProcessLap
    \/ LapsDone
    \/ ProcessSession
    \/ Finish
    \/ Handler

Spec == Init /\ [][Next]_vars

----------------------------------------------------------------------------
(* The directory walk on its own: parse on an existing, readable .ld file,   *)
(* up to the end of the walk.                                              *)

InitWalk ==
    /\ scope = "walk"
    /\ ext = "ld"
    /\ ldState = "ok"
    /\ ldxState = "missing"
    /\ ParseStart
    /\ NormIdle
    /\ HandlesIdle
    /\ DecodeIdle

NextWalk ==
    \/ CheckPath
    \/ ReadHeader
    \/ FirstChannel
    \/ WalkStep
    \/ WalkExit

SpecWalk == InitWalk /\ [][NextWalk]_vars

----------------------------------------------------------------------------
(* _parse_ldx on its own: the call on a sidecar path, up to its return.    *)

InitLdx ==
    /\ scope = "ldx"
    /\ ext = "ldx"
    /\ ldState = "ok"
    /\ ldxState \in {"missing", "unreadable", "ok"}
    /\ pc = "ldx_open"
    /\ exc = "none"
    /\ result = NoResult
    /\ ldx_path = TRUE
    /\ ldFile = EmptyMap
    /\ meta_ptr = 0
    /\ processed_offsets = {}
    /\ channels = EmptyMap
    /\ readLog = <<>>
    /\ walkEnd = "none"
    /\ ldxRecs = <<>>
    /\ lap_infos = <<>>
    /\ lap_num = 1
    /\ ldx_laps = NoLaps
    /\ lapIdx = 1
    /\ decodeLog = {}
    /\ session_laps = <<>>
    /\ NormIdle
    /\ HandlesIdle
    /\ DecodeIdle

NextLdx ==
    \/ LdxOpen
    \/ LdxRecord
    \/ LdxEnd

SpecLdx == InitLdx /\ [][NextLdx]_vars

----------------------------------------------------------------------------
(* _ldChan on its own: the object is built from a descriptor record, then  *)
(* get_data is called once.                                                *)

InitDecode ==
    /\ ParseIdle
    /\ NormIdle
    /\ HandlesIdle
    /\ dpc = "header"
    /\ chanRec \in ConvRecords
    /\ chanObj = NoChan
    /\ call_args = NoArgs
    /\ converted_data = GetDataNone
    /\ dataReads = 0
    /\ CallsIdle

NextDecode ==
    \/ DecodeHeader
    \/ DecodeCall

SpecDecode == InitDecode /\ [][NextDecode]_vars

----------------------------------------------------------------------------
(* The directory walk *)

\* a descriptor record with an empty name or type codes that are not recognised
InvalidRecord(rec) ==
    rec.name = "" \/ NpDtype(rec.dtype_code_a, rec.dtype_code_b) = "None"

\* C1: the directory walk terminates on every graph of next pointers.  No
\* offset is read twice, so the walk makes at most one read per record slot of
\* the file and at most MaxProcessed + 1 reads; while it is not over, the loop
\* takes a step or exits.
C1_WalkTerminates ==
    /\ \A i, j \in 1..Len(readLog) : i # j => readLog[i] # readLog[j]
    /\ Len(readLog) <= Min(MaxOffset, MaxProcessed + 1)
    /\ Cardinality(processed_offsets) <= Len(readLog)
    /\ pc = "first" => ENABLED FirstChannel
    /\ pc = "walk" => ENABLED (WalkStep \/ WalkExit)

\* a walk over a chain that never reaches 0 has ended, on the offset it met again
C1_Witness ==
    /\ pc = "walked"
    /\ walkEnd = "cycle"
    /\ Len(readLog) >= 2
    /\ \A o \in processed_offsets : ldFile[o].next_meta_ptr # 0

\* the file holds two valid descriptors of different names, A at the anchor
\* offset and B at b, with A.next = B and B.next = A
C2_Cycle(b) ==
    /\ {FIRST_CHANNEL_OFFSET_GUESS, b} \subseteq DOMAIN ldFile
    /\ ~InvalidRecord(ldFile[FIRST_CHANNEL_OFFSET_GUESS])
    /\ ~InvalidRecord(ldFile[b])
    /\ ldFile[FIRST_CHANNEL_OFFSET_GUESS].name # ldFile[b].name
    /\ ldFile[FIRST_CHANNEL_OFFSET_GUESS].next_meta_ptr = b
    /\ ldFile[b].next_meta_ptr = FIRST_CHANNEL_OFFSET_GUESS

\* C2: on the chain A -> B -> A of two valid descriptors (two channels, so of
\* different names) the walk reads A then B, each once, stops on meeting A
\* again, and the channels collected are exactly A and B.
C2_CycleCollectsBoth ==
    \A b \in Offsets \ {FIRST_CHANNEL_OFFSET_GUESS} :
        C2_Cycle(b) =>
            /\ readLog = <<FIRST_CHANNEL_OFFSET_GUESS, b>>
            /\ processed_offsets = {FIRST_CHANNEL_OFFSET_GUESS, b}
            /\ DOMAIN channels = {ldFile[FIRST_CHANNEL_OFFSET_GUESS].name, ldFile[b].name}
            /\ channels[ldFile[FIRST_CHANNEL_OFFSET_GUESS].name].meta_ptr
                   = FIRST_CHANNEL_OFFSET_GUESS
            /\ channels[ldFile[b].name].meta_ptr = b
            /\ pc = "walk" => meta_ptr = FIRST_CHANNEL_OFFSET_GUESS /\ ~ENABLED WalkStep
            /\ pc # "walk" => pc = "walked" /\ walkEnd = "cycle"

\* the walk over such a chain has ended
C2_Witness ==
    /\ pc = "walked"
    /\ walkEnd = "cycle"
    /\ \E b \in Offsets \ {FIRST_CHANNEL_OFFSET_GUESS} : C2_Cycle(b)

\* the k-th record read is a descriptor with an empty name or an unknown type
C3_InvalidAt(k) ==
    /\ readLog[k] \in DOMAIN ldFile
    /\ ldFile[readLog[k]].readable
    /\ InvalidRecord(ldFile[readLog[k]])

\* C3: a descriptor with an empty name or an unrecognised type ends the parse
\* with no session when it is the first record read; when it is a later
\* record the walk stops at it, the channels collected before it stay in the
\* collection, and the parse goes on with them: it decodes every one of them.
C3_FirstInvalidFatalLaterTruncates ==
    \A k \in 1..Len(readLog) :
        C3_InvalidAt(k) =>
            IF k = 1
            THEN /\ pc = "done"
                 /\ result = ReturnNone
                 /\ DOMAIN channels = {}
                 /\ decodeLog = {}
                 /\ ldxRecs = <<>>
            ELSE /\ k = Len(readLog)
                 /\ pc # "walk"
                 /\ DOMAIN channels = {ldFile[readLog[i]].name : i \in 1..(k - 1)}
                 /\ \A n \in DOMAIN channels :
                        \E i \in 1..(k - 1) :
                            /\ channels[n].meta_ptr = readLog[i]
                            /\ ldFile[readLog[i]].name = n
                 /\ pc = "walked" => ENABLED CheckChannels
                 /\ pc \in {"finish", "done"} => {d[2] : d \in decodeLog} = DOMAIN channels

\* a session was returned from the channels read before an invalid descriptor
C3_Witness ==
    /\ pc = "done"
    /\ result.kind = "session"
    /\ \E k \in 2..Len(readLog) : C3_InvalidAt(k)

----------------------------------------------------------------------------
(* normalize *)

\* no input channel maps to the standard channel std
C4_Unmapped(std) == \A n \in DOMAIN samples : FindChannelMapping(n) # std

\* C4: normalize on a raw channel set in which no input channel maps to the
\* distance, or none to the lap counter, or none to the time, returns no
\* session and never enters the lap processing.
C4_MissingRequiredNoSession ==
    (/\ source_format = "motec"
     /\ raw_kind = "dict"
     /\ \E std \in {"distance_m", "lap_number", "timestamp_s"} : C4_Unmapped(std))
    => /\ ~lapsCalled
       /\ npc \in {"call", "done"}
       /\ npc = "done" => nresult = NormNone

\* normalize returned no session for a channel set that lacks the distance
\* alone: lap counter, time and sector are there, with samples
C4_Witness ==
    /\ npc = "done"
    /\ nresult = NormNone
    /\ source_format = "motec"
    /\ raw_kind = "dict"
    /\ C4_Unmapped("distance_m")
    /\ {"Lap", "Time", "Sector"} \subseteq DOMAIN samples
    /\ Len(samples["Lap"]) > 0
    /\ Len(samples["Lap"]) = Len(samples["Time"])

----------------------------------------------------------------------------
(* parse *)

\* C5: parse returns no session when the channels collected from the file
\* hold no time channel or no distance channel.
C5_NoSessionWithoutTimeOrDistance ==
    (pc = "done" /\ {"Time", "Distance"} \ DOMAIN channels # {})
    => result.kind # "session"

\* the number of samples of the whole stream
C6_StreamLength ==
    CHOOSE m \in {channels[n].data_len : n \in DOMAIN channels} :
        \A n \in DOMAIN channels : channels[n].data_len <= m

\* C6: a session returned by parse is complete: one lap for every boundary
\* accepted from the sidecar (the whole stream as one lap without boundaries),
\* and in each lap one data point for every sample of its boundary.
C6_SessionComplete ==
    result.kind = "session" =>
        IF ldx_laps.none
        THEN /\ Len(result.laps) = 1
             /\ Len(result.laps[1].data_points) = C6_StreamLength
        ELSE /\ Len(result.laps) = Len(ldx_laps.laps)
             /\ \A i \in 1..Len(result.laps) :
                    Len(result.laps[i].data_points)
                        = ldx_laps.laps[i].end_offset - ldx_laps.laps[i].start_offset + 1

\* the decode of the whole stream, channel by channel
C7_WholeDecode == [n \in DOMAIN channels |-> GetDataAll(channels[n])]

\* the decode of the lap of the i-th boundary, channel by channel
C7_LapDecode(i) ==
    [n \in DOMAIN channels |->
        GetData(channels[n], ldx_laps.laps[i].start_offset,
                ldx_laps.laps[i].end_offset - ldx_laps.laps[i].start_offset + 1)]

\* a failure of the parse that is not a file I/O failure: a short header, an
\* invalid first descriptor, an empty channel set, a stream with no decodable
\* sample, boundaries of which no lap can be decoded, an exception other than
\* the one of a missing file
C7_Failure ==
    \/ ldState = "short" /\ ext \in {"ld", "ldx"}
    \/ /\ ldState = "ok"
       /\ FIRST_CHANNEL_OFFSET_GUESS \in DOMAIN ldFile
       /\ InvalidRecord(ldFile[FIRST_CHANNEL_OFFSET_GUESS])
    \/ ldState = "ok" /\ Len(readLog) > 0 /\ DOMAIN channels = {}
    \/ /\ \E d \in decodeLog : d[1] = 0
       /\ \A n \in DOMAIN channels : C7_WholeDecode[n].none
    \/ /\ \E d \in decodeLog : d[1] > 0
       /\ \A i \in 1..Len(ldx_laps.laps) :
              \A n \in DOMAIN channels : C7_LapDecode(i)[n].none
    \/ exc \notin {"none", "FileNotFoundError"}

C8_IOFailureDistinct ==
    (pc = "done" /\ ext \in {"ld", "ldx"} /\ ldState \in {"missing", "unreadable"})
    => result.kind = "raised"

----------------------------------------------------------------------------
(* _parse_ldx *)

\* the record has start < end and lap time > 0
C9_Accepts(rec) ==
    /\ rec.start_offset < rec.end_offset
    /\ rec.lap_time_s # NaN
    /\ rec.lap_time_s > 0

\* the records of recs with start < end and lap time > 0, in order, numbered
\* from n
RECURSIVE C9_Numbered(_, _)
C9_Numbered(recs, n) ==
    IF recs = <<>> THEN <<>>
    ELSE IF C9_Accepts(Head(recs))
         THEN <<[lap_num |-> n, start_offset |-> Head(recs).start_offset,
                 end_offset |-> Head(recs).end_offset,
                 lap_time_s |-> Head(recs).lap_time_s]>>
              \o C9_Numbered(Tail(recs), n + 1)
         ELSE C9_Numbered(Tail(recs), n)

\* C9: the laps _parse_ldx returns are exactly the records with start < end
\* and lap time > 0, in file order, numbered 1, 2, 3, ... without gaps.
C9_ExactSubsequence ==
    (pc = "segment" /\ ldxState = "ok") => ldx_laps.laps = C9_Numbered(ldxRecs, 1)

\* the same, for the sidecars that hold no NaN lap time
C9_FiniteTimes ==
    (/\ pc = "segment"
     /\ ldxState = "ok"
     /\ \A i \in 1..Len(ldxRecs) : ldxRecs[i].lap_time_s # NaN)
    => ldx_laps.laps = C9_Numbered(ldxRecs, 1)

\* the sidecar stage of a parse is over
C10_SidecarOver ==
    /\ DOMAIN channels # {}
    /\ pc \in {"segment", "whole", "laps", "finish", "handler", "done"}

\* the sidecar is missing or unreadable, or the reader accepted none of its records
C10_NoBoundaryInput ==
    \/ ldxState \in {"missing", "unreadable"}
    \/ ldxState = "ok" /\ lap_infos = <<>>

\* the channels decode: some channel gives samples of the whole stream, and
\* the timestamps among them convert
C10_Decodes ==
    /\ DOMAIN LapDataDict(C7_WholeDecode) # {}
    /\ ~PointsRaise(LapDataDict(C7_WholeDecode), MinSamples(LapDataDict(C7_WholeDecode)))

\* C10: a missing sidecar, an unreadable sidecar and a sidecar of which no
\* record was accepted all give "no boundaries", and none makes the parse
\* fail: the parse returns a session exactly when the channels decode, and the
\* session is the whole stream as the single lap 1.
C10_NoSidecarStillSession ==
    (C10_SidecarOver /\ C10_NoBoundaryInput) =>
        /\ ldx_laps = NoLaps
        /\ pc # "laps"
        /\ pc = "done" => (result.kind = "session" <=> C10_Decodes)
        /\ result.kind = "session" =>
               /\ Len(result.laps) = 1
               /\ result.laps[1].lap_number = 1
               /\ Len(result.laps[1].data_points)
                      = MinSamples(LapDataDict(C7_WholeDecode))

\* a session came back although every record of the sidecar was rejected
C10_Witness ==
    /\ pc = "done"
    /\ ldxState = "ok"
    /\ ldxRecs # <<>>
    /\ lap_infos = <<>>
    /\ result.kind = "session"
    /\ Len(result.laps) = 1

----------------------------------------------------------------------------
(* _process_laps_from_samples *)

\* the 0-based indices at which a boundary starts: sample 0 and every index
\* whose counter is above the one before
C11_Starts(c) == {0} \cup {i \in 1..(Len(c) - 1) : c[i + 1] > c[i]}

\* the last sample of the boundary that starts at s: the sample before the
\* next start, the final one of the num samples when there is no next start
C11_End(c, s, num) ==
    IF \E t \in C11_Starts(c) : t > s
    THEN (CHOOSE t \in C11_Starts(c) : t > s /\ \A u \in C11_Starts(c) : u > s => t <= u) - 1
    ELSE num - 1

\* C11: the boundaries the loop over the laps goes through start at sample 0
\* and at every index where the lap counter is above the value before it, at
\* no other index, in increasing order; each ends at the sample before the
\* next start, the last at the final sample (of the time channel).
C11_SyntheticBoundaries ==
    lapsCalled =>
        LET c == mapped_channels["lap_number"]
            num == Len(mapped_channels["timestamp_s"])
        IN  /\ \A k \in 1..Len(boundaryLog) :
                   /\ boundaryLog[k][1] \in C11_Starts(c)
                   /\ boundaryLog[k][2] = C11_End(c, boundaryLog[k][1], num)
            /\ Len(boundaryLog) >= 1 => boundaryLog[1][1] = 0
            /\ \A k \in 1..(Len(boundaryLog) - 1) :
                   /\ boundaryLog[k][1] < boundaryLog[k + 1][1]
                   /\ boundaryLog[k + 1][1] = boundaryLog[k][2] + 1
            /\ Len(boundaryLog) \in {lap_i, lap_i + 1}
            /\ npc = "laps" => Len(boundaryLog) = lap_i
            /\ (npc \in {"return", "done"} /\ lap_i = Cardinality(C11_Starts(c)))
                   => Len(boundaryLog) = Cardinality(C11_Starts(c))

\* the lap counter [1,1,1,2,2,3] over six samples gave [0,2], [3,4], [5,5]
C11_Witness ==
    /\ npc = "done"
    /\ lapsCalled
    /\ mapped_channels["lap_number"] = <<1, 1, 1, 2, 2, 3>>
    /\ Len(mapped_channels["timestamp_s"]) = 6
    /\ boundaryLog = << <<0, 2>>, <<3, 4>>, <<5, 5>> >>

\* the 0-based sample indices inside the boundaries of the laps that were
\* processed (at least one sample, lap number above 0)
C12_LapSamples ==
    {j \in 0..(Len(mapped_channels["sector"]) - 1) :
        \E k \in 1..Len(boundaryLog) :
            /\ boundaryLog[k][1] <= j
            /\ j <= boundaryLog[k][2]
            /\ At(mapped_channels["lap_number"], boundaryLog[k][1]) > 0}

\* the sector numbers observed in those laps
C12_Observed ==
    {At(mapped_channels["sector"], j) : j \in C12_LapSamples} \ {x \in (0 - 2)..0 : TRUE}

\* the distance of the first sample at which sector number n appears
C12_FirstDistance(n) ==
    At(mapped_channels["distance_m"],
       CHOOSE j \in C12_LapSamples :
           /\ At(mapped_channels["sector"], j) = n
           /\ \A i \in C12_LapSamples : At(mapped_channels["sector"], i) = n => j <= i)

\* C12: after the laps of a normalize call, the sector-marker list holds one
\* marker per observed sector number, in the order of the sector numbers: the
\* distance of the first sample at which that number appears.
C12_SectorMarkers ==
    (/\ npc = "done"
     /\ lapsCalled
     /\ "sector" \in DOMAIN mapped_channels
     /\ \A ch \in {"timestamp_s", "distance_m", "sector"} :
            Len(mapped_channels[ch]) = Len(mapped_channels["lap_number"]))
    => /\ Len(sector_markers_m) = Cardinality(C12_Observed)
       /\ \A k \in 1..Len(sector_markers_m) :
              \E n \in C12_Observed :
                  /\ Cardinality({m \in C12_Observed : m <= n}) = k
                  /\ sector_markers_m[k] = C12_FirstDistance(n)

\* the same, for the calls in which the sector numbers appear in the order
\* 1, 2, 3, ... in the first lap (each new number one above the markers held)
\* and no lap shows a number above those of the first
C12_SequentialSectors ==
    (/\ npc = "done"
     /\ lapsCalled
     /\ "sector" \in DOMAIN mapped_channels
     /\ mapped_channels["sector"] \in {<<1, 1, 2>>, <<1, 1, 2, 2, 2, 3>>}
     /\ Len(boundaryLog) = 1
     /\ \A ch \in {"timestamp_s", "distance_m", "sector"} :
            Len(mapped_channels[ch]) = Len(mapped_channels["lap_number"])
     /\ At(mapped_channels["lap_number"], 0) > 0)
    => /\ Len(sector_markers_m) = Cardinality(C12_Observed)
       /\ \A n \in C12_Observed : sector_markers_m[n] = C12_FirstDistance(n)

----------------------------------------------------------------------------
(* _ldChan.get_data *)

\* (raw / scale * 10^(-dec) + shift) * mul as one fraction, scale and mul the
\* recorded values of rec, 1 when recorded as 0
C13_Formula(raw, rec) ==
    LET scale == IF rec.scale = 0 THEN 1 ELSE rec.scale
        mul == IF rec.mul = 0 THEN 1 ELSE rec.mul
    IN  IF rec.dec >= 0
        THEN <<(raw + rec.shift * scale * Pow10(rec.dec)) * mul, scale * Pow10(rec.dec)>>
        ELSE <<(raw * Pow10(0 - rec.dec) + rec.shift * scale) * mul, scale>>

\* C13: every sample get_data returns equals
\* (raw / scale * 10^(-dec) + shift) * mul of the raw sample at its index, with
\* scale and mul the recorded values, 1 when recorded as 0; no conversion
\* divides by zero.
C13_DecodeFormula ==
    (dpc = "done" /\ ~converted_data.none) =>
        \A k \in 1..Len(converted_data.data) :
            /\ converted_data.data[k][2] # 0
            /\ RatEq(converted_data.data[k],
                     C13_Formula(chanRec.raw[call_args.start_index + k], chanRec))

\* scale=10, dec=2, shift=1, mul=2 and raw [100, 200] decoded to 2.2 and 2.4
C13_Witness ==
    /\ dpc = "done"
    /\ chanRec.scale = 10 /\ chanRec.dec = 2 /\ chanRec.shift = 1 /\ chanRec.mul = 2
    /\ chanRec.raw[1] = 100 /\ chanRec.raw[2] = 200
    /\ call_args.start_index = 0
    /\ ~converted_data.none
    /\ Len(converted_data.data) >= 2
    /\ RatEq(converted_data.data[1], <<22, 10>>)
    /\ RatEq(converted_data.data[2], <<24, 10>>)

\* the count of a get_data call, given or omitted
C14_Count ==
    IF call_args.omitted THEN chanRec.data_len - call_args.start_index ELSE call_args.count

\* C14: get_data with start < 0, or count <= 0, or start + count above the
\* number of samples (count omitted and start at or past the number of
\* samples included) returns None, and the file is not read.
C14_InvalidRangeNoRead ==
    (/\ dpc = "done"
     /\ \/ call_args.start_index < 0
        \/ C14_Count <= 0
        \/ call_args.start_index + C14_Count > chanRec.data_len
        \/ call_args.omitted /\ call_args.start_index >= chanRec.data_len)
    => /\ converted_data = GetDataNone
       /\ dataReads = 0

\* a call with count omitted and start at the number of samples returned None
C14_Witness ==
    /\ dpc = "done"
    /\ chanObj.np_dtype # "None"
    /\ chanRec.data_len > 0
    /\ call_args.omitted
    /\ call_args.start_index = chanRec.data_len
    /\ converted_data = GetDataNone
    /\ dataReads = 0

----------------------------------------------------------------------------
(* The sessions returned *)

\* C15: in every lap of a session normalize returns, the timestamps of the
\* data points do not decrease in list order, and neither do the distances.
C15_Monotone ==
    nresult.kind = "session" =>
        \A l \in 1..Len(nresult.laps) :
            \A k \in 1..(Len(nresult.laps[l].data_points) - 1) :
                /\ nresult.laps[l].data_points[k].timestamp_ms
                       <= nresult.laps[l].data_points[k + 1].timestamp_ms
                /\ nresult.laps[l].data_points[k].distance_m
                       <= nresult.laps[l].data_points[k + 1].distance_m

----------------------------------------------------------------------------
(* Two parse calls at once, each on its own existing, readable .ld file,   *)
(* from the first channel to the check of the collected channels. A step   *)
(* of a call is one read of a descriptor record.                           *)

CallIds == {1, 2}

\* the offsets of the files of the two calls
MaxCallOffset == 2

\* the channel name of the descriptor at ptr in these files
CallName(ptr) == IF ptr = FIRST_CHANNEL_OFFSET_GUESS THEN "Time" ELSE "RPM"

\* the descriptor records of these files at ptr: a valid descriptor with any
\* next pointer, or a record that cannot be read
CallRecords(ptr) ==
    {ShortRecord} \cup
    [readable : {TRUE}, name : {CallName(ptr)}, dtype_code_a : {0}, dtype_code_b : {2},
     next_meta_ptr : 0..MaxCallOffset, data_len : {0}, avail : {0}, prof : {"inc"}]

CallFiles == {f \in [1..MaxCallOffset -> UNION {CallRecords(o) : o \in 1..MaxCallOffset}] :
                 \A o \in 1..MaxCallOffset : f[o] \in CallRecords(o)}

\* the bytes of a file at ptr: a read past the end of the file is short
FileRecord(file, ptr) == IF ptr \in DOMAIN file THEN file[ptr] ELSE ShortRecord

\* lines 391-396: the locals of a call when the walk starts
NewCall ==
    [pc |-> "first", meta_ptr |-> FIRST_CHANNEL_OFFSET_GUESS, processed_offsets |-> {},
     channels |-> EmptyMap, result |-> NoResult]

\* lines 399-414 on the locals of one call
FirstChannelOf(file, call) ==
    LET first_chan == LdChan(call.meta_ptr, FileRecord(file, call.meta_ptr))
    IN  IF ChanValid(first_chan)
        THEN [call EXCEPT !.pc = "walk",
                          !.channels = Put(call.channels, first_chan.name, first_chan),
                          !.processed_offsets =
                              MarkProcessed(call.processed_offsets, call.meta_ptr),
                          !.meta_ptr = first_chan.next_meta_ptr]
        ELSE [call EXCEPT !.pc = "done", !.result = ReturnNone]

\* lines 418-435 on the locals of one call: one iteration of the loop
WalkStepOf(file, call) ==
    LET visited == MarkProcessed(call.processed_offsets, call.meta_ptr)
        chan == LdChan(call.meta_ptr, FileRecord(file, call.meta_ptr))
    IN  IF ChanValid(chan)
        THEN [call EXCEPT !.processed_offsets = visited,
                          !.channels = Put(call.channels, chan.name, chan),
                          !.meta_ptr = chan.next_meta_ptr,
                          !.pc = IF LimitReached(visited) THEN "walked" ELSE "walk"]
        ELSE [call EXCEPT !.processed_offsets = visited, !.pc = "walked"]

\* lines 437-440 on the locals of one call
CheckChannelsOf(call) ==
    IF DOMAIN call.channels = {}
    THEN [call EXCEPT !.pc = "done", !.result = ReturnNone]
    ELSE [call EXCEPT !.pc = "sidecar"]

\* one set of processed offsets for all the calls
Visited_Shared(c) == UNION {calls[d].processed_offsets : d \in CallIds}

\* line 395: processed_offsets is a local of the call
Visited(c) == calls[c].processed_offsets

\* a step of call c runs while another call is between its first read and
\* its check of the channels
Overlaps(c) == \E d \in CallIds \ {c} : calls[d].pc \in {"walk", "walked"}

CallFirstChannel(c) ==
    /\ calls[c].pc = "first"
    /\ calls' = [calls EXCEPT ![c] = FirstChannelOf(files[c], calls[c])]
    /\ interleaved' = (interleaved \/ Overlaps(c))
    /\ UNCHANGED <<restVars, decVars, handleVars, files>>

CallWalkStep(c) ==
    /\ calls[c].pc = "walk"
    /\ WalkContinues(calls[c].meta_ptr, Visited(c))
    /\ calls' = [calls EXCEPT ![c] = WalkStepOf(files[c], calls[c])]
    /\ interleaved' = (interleaved \/ Overlaps(c))
    /\ UNCHANGED <<restVars, decVars, handleVars, files>>

CallWalkExit(c) ==
    /\ calls[c].pc = "walk"
    /\ ~WalkContinues(calls[c].meta_ptr, Visited(c))
    /\ calls' = [calls EXCEPT ![c].pc = "walked"]
    /\ interleaved' = (interleaved \/ Overlaps(c))
    /\ UNCHANGED <<restVars, decVars, handleVars, files>>

CallCheckChannels(c) ==
    /\ calls[c].pc = "walked"
    /\ calls' = [calls EXCEPT ![c] = CheckChannelsOf(calls[c])]
    /\ interleaved' = (interleaved \/ Overlaps(c))
    /\ UNCHANGED <<restVars, decVars, handleVars, files>>

InitCalls ==
    /\ ParseIdle
    /\ NormIdle
    /\ HandlesIdle
    /\ dpc = "idle"
    /\ chanRec = NoChanRec
    /\ chanObj = NoChan
    /\ call_args = NoArgs
    /\ converted_data = GetDataNone
    /\ dataReads = 0
    /\ files \in [CallIds -> CallFiles]
    /\ calls = [c \in CallIds |-> NewCall]
    /\ interleaved = FALSE

NextCalls ==
    \/ \E c \in CallIds : CallFirstChannel(c)
    \/ \E c \in CallIds : CallWalkStep(c)
    \/ \E c \in CallIds : CallWalkExit(c)
    \/ \E c \in CallIds : CallCheckChannels(c)

SpecCalls == InitCalls /\ [][NextCalls]_vars

\* the walk of one call running alone on file, from the locals call
RECURSIVE RunAlone(_, _)
RunAlone(file, call) ==
    CASE call.pc = "first" -> RunAlone(file, FirstChannelOf(file, call))
      [] call.pc = "walk" ->
            IF WalkContinues(call.meta_ptr, call.processed_offsets)
            THEN RunAlone(file, WalkStepOf(file, call))
            ELSE RunAlone(file, [call EXCEPT !.pc = "walked"])
      [] call.pc = "walked" -> RunAlone(file, CheckChannelsOf(call))
      [] OTHER -> call

\* C16: whatever the interleaving of the steps of two parse calls, a call
\* that has finished its walk holds the visited offsets, the channels and
\* the result it has when it runs alone on its file.
C16_InterleavingIndependent ==
    \A c \in CallIds :
        calls[c].pc \in {"done", "sidecar"} =>
            calls[c] = RunAlone(files[c], NewCall)

\* no step of a call changes the locals of the other call
C16_OwnState ==
    [][\A c \in CallIds :
          calls'[c] # calls[c] => \A d \in CallIds \ {c} : calls'[d] = calls[d]]_vars

\* both calls walked the same two-descriptor file to its end, one taking
\* steps while the other was in its walk
C16_Witness ==
    /\ files[1] = files[2]
    /\ \A c \in CallIds :
          /\ calls[c].pc = "sidecar"
          /\ Cardinality(calls[c].processed_offsets) = 2
          /\ Cardinality(DOMAIN calls[c].channels) = 2
    /\ interleaved

----------------------------------------------------------------------------
(* The stages of a parse run *)

\* the stage a position of parse belongs to: 0 INIT, 1 reading the header,
\* 2 reading the channels, 3 reading the lap index, 4 segmenting,
\* 5 assembling the session, 6 returned or in the handler
C17_Stage(p) ==
    CASE p = "start" -> 0
      [] p = "header" -> 1
      [] p \in {"first", "walk", "walked", "sidecar"} -> 2
      [] p \in {"ldx_open", "ldx_loop"} -> 3
      [] p \in {"segment", "laps", "whole"} -> 4
      [] p = "finish" -> 5
      [] OTHER -> 6

\* a step stays in its stage, enters the next one, skips the lap index, or
\* ends the run
C17_Forward ==
    \/ C17_Stage(pc') = C17_Stage(pc)
    \/ C17_Stage(pc') = C17_Stage(pc) + 1
    \/ C17_Stage(pc) = 2 /\ C17_Stage(pc') = 4
    \/ C17_Stage(pc') = 6

\* the lap index is read only with channels collected, a session is returned
\* only from the assembly of the session, and a run that is in the handler
\* or has returned takes no step but the handler's return of None
C17_Guards ==
    /\ C17_Stage(pc') = 3 => DOMAIN channels # {}
    /\ result'.kind = "session" => pc = "finish" /\ result.kind = "pending"
    /\ pc = "handler" => pc' = "done" /\ result'.kind = "none"
    /\ pc # "done"

\* C17: a parse run goes through the stages in order, the lap index is read
\* only after channels were collected, a session is returned only from the
\* last stage, and once a stage has failed (the header could not be read
\* included) no later stage runs and no session is returned.
C17_StagesInOrder ==
    [][/\ C17_Forward
       /\ C17_Guards
       /\ (pc = "header" /\ ldState # "ok" => C17_Stage(pc') = 6)]_vars

\* the same without the header: the order, the guards, and a failure of the
\* walk, of the channel check or of the segmentation ends the run
C17_OrderAfterHeader ==
    [][C17_Forward /\ C17_Guards]_vars

----------------------------------------------------------------------------
(* A descriptor of unknown type in the chain *)

\* the k-th record read is a named descriptor whose type codes are not mapped
C18_UnmappedAt(k) ==
    /\ readLog[k] \in DOMAIN ldFile
    /\ ldFile[readLog[k]].readable
    /\ ldFile[readLog[k]].name # ""
    /\ NpDtype(ldFile[readLog[k]].dtype_code_a, ldFile[readLog[k]].dtype_code_b) = "None"

\* the offsets read before the k-th read
C18_ReadBefore(k) == {readLog[i] : i \in 1..(k - 1)}

\* the descriptor of unknown type read at k points to a descriptor not read yet
C18_HasFollower(k) ==
    /\ ldFile[readLog[k]].next_meta_ptr # 0
    /\ ldFile[readLog[k]].next_meta_ptr \notin C18_ReadBefore(k + 1)

\* C18 as stated: when a later descriptor has an unmapped type, only that
\* channel is dropped, and once the walk is over the descriptor that follows
\* it in the chain has been read.
C18_FollowersCollected ==
    \A k \in 2..Len(readLog) :
        C18_UnmappedAt(k) /\ pc = "walked" =>
            /\ \A n \in DOMAIN channels : channels[n].meta_ptr # readLog[k]
            /\ C18_HasFollower(k) =>
                   \E i \in 1..Len(readLog) : readLog[i] = ldFile[readLog[k]].next_meta_ptr

\* C18: when a later descriptor has an unmapped type, that channel is
\* dropped and the walk stops at it: it is the last record read, the
\* descriptor it points to is not read, and the collection holds exactly the
\* channels of the descriptors read before it.
C18_UnmappedStopsWalk ==
    \A k \in 2..Len(readLog) :
        C18_UnmappedAt(k) =>
            /\ k = Len(readLog)
            /\ pc = "walked"
            /\ walkEnd = "invalid"
            /\ \A n \in DOMAIN channels : channels[n].meta_ptr \in C18_ReadBefore(k)
            /\ DOMAIN channels = {ldFile[o].name : o \in C18_ReadBefore(k)}

\* the walk ended on a later descriptor of unknown type that points to a
\* descriptor not read
C18_Witness ==
    /\ pc = "walked"
    /\ \E k \in 2..Len(readLog) : C18_UnmappedAt(k) /\ C18_HasFollower(k)

----------------------------------------------------------------------------
(* The limit of the directory walk *)

\* C19: the directory walk reads at most MaxProcessed descriptor records (the
\* 1000 of line 433) in one parse: no more offsets are processed, no more
\* channels are collected, and with MaxProcessed offsets processed the loop
\* takes no further step.
C19_CapRespected ==
    /\ Len(readLog) <= MaxProcessed
    /\ Cardinality(processed_offsets) <= MaxProcessed
    /\ Cardinality(DOMAIN channels) <= MaxProcessed
    /\ pc = "walk" /\ Cardinality(processed_offsets) >= MaxProcessed => ~ENABLED WalkStep

----------------------------------------------------------------------------
(* The lap boundaries *)

\* C20: the lap boundaries _parse_ldx returns for segmentation each have
\* start <= end and a duration above zero, their start indices increase
\* strictly in list order and no two of them overlap.
C20_BoundariesOrdered ==
    /\ \A i \in 1..Len(ldx_laps.laps) :
          /\ ldx_laps.laps[i].start_offset <= ldx_laps.laps[i].end_offset
          /\ ldx_laps.laps[i].lap_time_s # NaN
          /\ ldx_laps.laps[i].lap_time_s > 0
    /\ \A i, j \in 1..Len(ldx_laps.laps) :
          i < j => ldx_laps.laps[i].end_offset < ldx_laps.laps[j].start_offset

\* the sidecar holds the same record twice, start 0, end 1, lap time 1, and
\* both were returned as laps
C20_SameRecordTwice ==
    /\ Len(ldx_laps.laps) = 2
    /\ \A i \in 1..2 :
          /\ ldx_laps.laps[i].start_offset = 0
          /\ ldx_laps.laps[i].end_offset = 1
          /\ ldx_laps.laps[i].lap_time_s = 1

----------------------------------------------------------------------------
(* The data blocks of the channels kept *)

\* C21: for every channel kept in the channel collection the data block the
\* descriptor declares lies inside the file: the file holds at least
\* data_len elements from data_ptr on.
C21_DataInsideFile ==
    \A n \in DOMAIN channels : channels[n].data_len <= channels[n].avail

----------------------------------------------------------------------------
(* Short reads *)

\* the count of the get_data call made, the default of line 139 included
C22_Count ==
    IF call_args.omitted THEN chanRec.data_len - call_args.start_index ELSE call_args.count

\* the call passed the checks of lines 135-142
C22_Validated ==
    /\ dpc = "done"
    /\ chanObj.np_dtype # "None"
    /\ chanRec.data_len # 0
    /\ call_args.start_index >= 0
    /\ C22_Count > 0
    /\ call_args.start_index + C22_Count <= chanRec.data_len

\* the elements the file holds from start_index on, up to the count asked
C22_Read == Min(C22_Count, Max(0, chanRec.avail - call_args.start_index))

\* C22: a validated get_data call that reads fewer elements than it asked
\* for returns None when it read none, and otherwise the converted array of
\* the elements it read, in order, shorter than the count asked.
C22_ShortRead ==
    C22_Validated /\ C22_Read < C22_Count =>
        IF C22_Read = 0
        THEN converted_data = GetDataNone
        ELSE /\ ~converted_data.none
             /\ Len(converted_data.data) = C22_Read
             /\ \A k \in 1..C22_Read :
                    RatEq(converted_data.data[k],
                          Convert(chanRec.raw[call_args.start_index + k], chanObj))

\* a call asked for two elements, read one and returned it converted
C22_Witness ==
    /\ C22_Validated
    /\ C22_Count = 2
    /\ C22_Read = 1
    /\ ~converted_data.none
    /\ Len(converted_data.data) = 1

----------------------------------------------------------------------------
(* Laps built from the sidecar *)

\* the length of the array channel n decodes to for the sidecar lap numbered num
C23_DecodedLen(n, num) ==
    LET ldx_lap == ldx_laps.laps[num]
        got == GetData(channels[n], ldx_lap.start_offset,
                       ldx_lap.end_offset - ldx_lap.start_offset + 1)
    IN  IF got.none THEN 0 ELSE Len(got.data)

\* the length of the longest array decoded for that lap
C23_Longest(num) ==
    CHOOSE m \in {C23_DecodedLen(n, num) : n \in DOMAIN channels} :
        \A n \in DOMAIN channels : C23_DecodedLen(n, num) <= m

\* C23: in a parse driven by the sidecar every lap built has one DataPoint
\* per index of the longest array decoded for it, so that no sample of a
\* longer channel is left out.
C23_PaddedToLongest ==
    ~ldx_laps.none =>
        \A l \in 1..Len(session_laps) :
            Len(session_laps[l].data_points) = C23_Longest(session_laps[l].lap_number)

----------------------------------------------------------------------------
(* The sector times of a lap *)

\* the sample range, first and last index, of the last iteration over the laps
C24_First == boundaryLog[Len(boundaryLog)][1]
C24_Last == boundaryLog[Len(boundaryLog)][2]

\* the sector, time and distance channels all have the samples of that range
C24_Covered ==
    /\ "sector" \in DOMAIN mapped_channels
    /\ \A ch \in {"sector", "timestamp_s", "distance_m"} :
          InRange(mapped_channels[ch], C24_Last)

\* the indices of the range where a sector segment starts: the first index
\* and every index whose sector value differs from the one before
C24_SegStarts ==
    {j \in C24_First..C24_Last :
        j = C24_First \/ At(mapped_channels["sector"], j) # At(mapped_channels["sector"], j - 1)}

\* the last index of the segment that starts at j
C24_SegEnd(j) ==
    IF \E k \in C24_SegStarts : k > j
    THEN (CHOOSE k \in C24_SegStarts : k > j /\ \A m \in C24_SegStarts : m > j => k <= m) - 1
    ELSE C24_Last

\* the time of the segment that starts at j, in milliseconds
C24_Span(j) ==
    (At(mapped_channels["timestamp_s"], C24_SegEnd(j))
        - At(mapped_channels["timestamp_s"], j)) * 1000

\* the spans of the segments starting at the indices of S, in order
C24_Spans(S) == [i \in 1..Cardinality(S) |-> C24_Span(Sorted(S)[i])]

\* the lap built last has one sector time per segment of the range
C24_AllSegments ==
    C24_Covered =>
        laps_data[Len(laps_data)].sector_times_ms = C24_Spans(C24_SegStarts)

\* the lap built last has one sector time per segment of positive sector value
C24_PositiveSegments ==
    C24_Covered =>
        laps_data[Len(laps_data)].sector_times_ms =
            C24_Spans({j \in C24_SegStarts : At(mapped_channels["sector"], j) > 0})

----------------------------------------------------------------------------
(* The lap time of a synthesized lap *)

\* the lap built last has the time between the first and the last sample of
\* its range, in milliseconds
C25_LastLapTime ==
    laps_data[Len(laps_data)].lap_time_ms =
        (mapped_channels["timestamp_s"][C24_Last + 1]
            - mapped_channels["timestamp_s"][C24_First + 1]) * 1000

\* C25: the lap time of every lap normalize builds is the timestamp of the
\* last sample of its boundary minus the timestamp of the first sample of
\* its boundary, in milliseconds; no other sample enters it.
C25_LapTimeFromBoundary ==
    [][Len(laps_data') > Len(laps_data) => C25_LastLapTime']_vars

\* a session of two laps, the second over a range that starts after sample 0
\* and lasts more than one sample
C25_Witness ==
    /\ npc = "done"
    /\ nresult.kind = "session"
    /\ Len(nresult.laps) = 2
    /\ Len(boundaryLog) = 2
    /\ boundaryLog[2][1] > 0
    /\ boundaryLog[2][2] > boundaryLog[2][1]
    /\ nresult.laps[2].lap_time_ms > 0
    /\ C25_LastLapTime

----------------------------------------------------------------------------
(* The file handles of a parse: the read operations of one call, each      *)
(* followed through open, read and the exit of its `with` block.           *)

\* the read operations the model follows in one parse
MaxReads == 4

\* what the body of a `with` block can come to: the read is whole, the read
\* is short, the read raises
ReadOutcomes == {"ok", "short", "raise"}

\* the outcome of the operation made last
LastOutcome == IF opLog = <<>> THEN "ok" ELSE opLog[Len(opLog)][2]

\* the read operations that can follow op in parse, "return" when parse can
\* return after it: _ldHead._read_header opens the file at lines 186, 207
\* and 236, _ldChan._read_header at line 81, _parse_ldx at line 284,
\* get_data at line 145
NextOps(op, outcome) ==
    CASE op = "start" -> {"head"}
      [] op = "head" ->
            IF outcome = "ok" THEN {"head_strings", "head_event", "chan"}
            ELSE {"chan", "return"}
      [] op = "head_strings" ->
            IF outcome \in {"ok", "short"} THEN {"head_event", "chan"}
            ELSE {"chan", "return"}
      [] op = "head_event" -> {"chan"}
      [] op = "chan" -> {"chan", "ldx", "data", "return"}
      [] op = "ldx" -> {"data"}
      [] OTHER -> {"data", "return"}

\* a `with` block that releases the handle only when its body ends normally
WithExit_NormalOnly(handles, h, outcome) ==
    IF outcome = "raise" THEN handles ELSE handles \ {h}

\* the exit of `with open(...) as f`: the handle is closed however the body ends
WithExit(handles, h, outcome) == handles \ {h}

\* open(path, "rb"): the handle is created, or open raises and there is none
HandleOpen ==
    /\ hpc = "next"
    /\ Len(opLog) < MaxReads
    /\ \E op \in NextOps(hop, LastOutcome) \ {"return"} :
         /\ hop' = op
         /\ \/ /\ open_files' = open_files \cup {Len(opLog) + 1}
               /\ hpc' = "reading"
               /\ UNCHANGED opLog
            \/ /\ opLog' = Append(opLog, <<op, "noopen">>)
               /\ UNCHANGED <<hpc, open_files>>
    /\ UNCHANGED <<restVars, decVars, callVars>>

\* the body of the `with` block: seek and read, whole, short or raising
HandleRead ==
    /\ hpc = "reading"
    /\ \E outcome \in ReadOutcomes : opLog' = Append(opLog, <<hop, outcome>>)
    /\ hpc' = "exit"
    /\ UNCHANGED <<restVars, decVars, callVars, hop, open_files>>

\* control leaves the `with` block
HandleExit ==
    /\ hpc = "exit"
    /\ open_files' = WithExit(open_files, Len(opLog), LastOutcome)
    /\ hpc' = "next"
    /\ UNCHANGED <<restVars, decVars, callVars, hop, opLog>>

\* parse returns, with a session or None
HandleReturn ==
    /\ hpc = "next"
    /\ "return" \in NextOps(hop, LastOutcome) \/ Len(opLog) >= MaxReads
    /\ hpc' = "returned"
    /\ UNCHANGED <<restVars, decVars, callVars, hop, open_files, opLog>>

InitHandles ==
    /\ ParseIdle
    /\ NormIdle
    /\ DecodeIdle
    /\ hpc = "next"
    /\ hop = "start"
    /\ open_files = {}
    /\ opLog = <<>>

NextHandles ==
    \/ HandleOpen
    \/ HandleRead
    \/ HandleExit
    \/ HandleReturn

SpecHandles == InitHandles /\ [][NextHandles]_vars

\* C26: in a parse at most one file handle is open at any moment, a handle
\* is open only inside the read operation that opened it, and none is open
\* between two operations or when parse has returned, whatever the reads
\* came to.
C26_HandlesScoped ==
    /\ Cardinality(open_files) <= 1
    /\ hpc = "reading" => open_files = {Len(opLog) + 1}
    /\ hpc = "exit" => open_files = {Len(opLog)}
    /\ hpc \in {"next", "returned"} => open_files = {}

\* parse returned after a read that raised inside its `with` block, a short
\* read and an open that failed
C26_Witness ==
    /\ hpc = "returned"
    /\ open_files = {}
    /\ \E i \in 1..Len(opLog) : opLog[i][2] = "raise"
    /\ \E i \in 1..Len(opLog) : opLog[i] = <<"data", "short">>
    /\ \E i \in 1..Len(opLog) : opLog[i][2] = "noopen"

----------------------------------------------------------------------------
(* The synthesized boundaries cover the stream *)

\* the loop over the laps is over, on a lap counter and a time channel of
\* the same length, which is not zero
C27_SameLength ==
    /\ lapsCalled
    /\ npc \in {"return", "done"}
    /\ Len(mapped_channels["lap_number"]) = Len(mapped_channels["timestamp_s"])
    /\ Len(mapped_channels["lap_number"]) >= 1

\* C27: when the lap counter and the time channel have the same length
\* n >= 1, the boundaries normalize synthesizes start at 0, each next one
\* starts right after the end of the one before, the last ends at n - 1, and
\* every sample index lies in exactly one of them.
C27_BoundariesCover ==
    C27_SameLength =>
        /\ Len(boundaryLog) >= 1
        /\ boundaryLog[1][1] = 0
        /\ \A i \in 1..(Len(boundaryLog) - 1) :
              boundaryLog[i + 1][1] = boundaryLog[i][2] + 1
        /\ boundaryLog[Len(boundaryLog)][2] = Len(mapped_channels["timestamp_s"]) - 1
        /\ \A k \in 0..(Len(mapped_channels["timestamp_s"]) - 1) :
              Cardinality({i \in 1..Len(boundaryLog) :
                              boundaryLog[i][1] <= k /\ k <= boundaryLog[i][2]}) = 1

\* three samples were cut into two boundaries
C27_Witness ==
    /\ C27_SameLength
    /\ npc = "done"
    /\ Len(mapped_channels["timestamp_s"]) = 3
    /\ Len(boundaryLog) = 2

----------------------------------------------------------------------------
(* Lap numbers *)

\* the lap counter at the first sample of the range of the last iteration
C28_CurrentLap == At(mapped_channels["lap_number"], C24_First)

\* C28: normalize never emits a lap whose number is <= 0: an iteration over
\* a boundary whose lap counter at its first sample is <= 0 adds no lap, a
\* lap that is added has the lap counter of its first sample as its number
\* and comes after the laps of the boundaries before it, and every lap of
\* the session returned has a number >= 1.
C28_NoLapBelowOne ==
    [][/\ \A l \in 1..Len(laps_data') : laps_data'[l].lap_number >= 1
       /\ nresult'.kind = "session" =>
              /\ nresult'.laps = laps_data'
              /\ \A l \in 1..Len(nresult'.laps) : nresult'.laps[l].lap_number >= 1
       /\ (/\ Len(boundaryLog') > Len(boundaryLog)
           /\ InRange(mapped_channels'["lap_number"], C24_First')
           /\ C28_CurrentLap' <= 0) => laps_data' = laps_data
       /\ Len(laps_data') > Len(laps_data) =>
              /\ laps_data = SubSeq(laps_data', 1, Len(laps_data))
              /\ laps_data'[Len(laps_data')].lap_number = C28_CurrentLap'
              /\ Len(boundaryLog') = Len(boundaryLog) + 1
              /\ \A i \in 1..Len(boundaryLog) : boundaryLog[i][1] < C24_First']_vars

\* a session of one lap from two boundaries: the boundary whose lap counter
\* is 0 was dropped
C28_Witness ==
    /\ npc = "done"
    /\ nresult.kind = "session"
    /\ Len(boundaryLog) = 2
    /\ Len(nresult.laps) = 1
    /\ At(mapped_channels["lap_number"], boundaryLog[1][1]) = 0
    /\ boundaryLog[1][2] >= boundaryLog[1][1]
    /\ nresult.laps[1].lap_number >= 1

----------------------------------------------------------------------------
(* Sessions and their laps: a parse call on an existing, readable .ld      *)
(* file, or a normalize call.                                              *)

InitSessions ==
    \/ Init /\ ext = "ld" /\ ldState = "ok"
    \/ InitNorm

NextSessions ==
    \/ Next
    \/ NextNorm

SpecSessions == InitSessions /\ [][NextSessions]_vars

\* C29: a session returned by parse, or by normalize for a raw motec channel
\* set, has at least one lap; a call that ends with no lap built returns no
\* session.
C29_SessionsHaveLaps ==
    /\ result.kind = "session" => Len(result.laps) >= 1
    /\ nresult.kind = "session" => Len(nresult.laps) >= 1
    /\ pc = "done" /\ session_laps = <<>> => result = ReturnNone
    /\ npc = "done" /\ lapsCalled /\ laps_data = <<>> => nresult = NormNone

\* parse read the channels and a sidecar with a lap, no channel had samples
\* for the lap, and parse returned no session
C29_Witness ==
    /\ pc = "done"
    /\ ~ldx_laps.none
    /\ DOMAIN channels # {}
    /\ decodeLog # {}
    /\ session_laps = <<>>
    /\ result = ReturnNone

\* normalize built no lap from a channel set with the required channels and
\* returned no session
C29_NormalizeNoLap ==
    /\ npc = "done"
    /\ lapsCalled
    /\ Len(boundaryLog) >= 1
    /\ laps_data = <<>>
    /\ nresult = NormNone

\* C30: normalize handed a session with source format "motec" or "csv" returns
\* that session with its laps and its track data as they were, and a second
\* normalize on what the first returned gives that same value: a session
\* with the same laps and track data, or no session both times.
C30_Idempotent ==
    /\ (/\ npc = "done"
        /\ raw_kind = "session"
        /\ source_format \in {"motec", "csv"})
       => /\ nresult.kind = "raw_data"
          /\ nresult.laps = raw_session.laps
          /\ nresult.markers = raw_session.markers
    /\ (npc = "done" /\ first_result # NormPending)
       => /\ IsSession(nresult) <=> IsSession(first_result)
          /\ nresult.laps = first_result.laps
          /\ nresult.markers = first_result.markers

\* the first call built a session with a lap and sector markers from a
\* channel set, and the second call returned that session
C30_Witness ==
    /\ npc = "done"
    /\ first_result.kind = "session"
    /\ Len(first_result.laps) >= 1
    /\ first_result.markers # <<>>
    /\ nresult.kind = "raw_data"
    /\ nresult.laps = first_result.laps
    /\ nresult.markers = first_result.markers

====
